---- MODULE Spec2Model ----
(***************************************************************************)
(* TransitCreator: the octolinear layout engine of the map canvas          *)
(* (getOctolinearSegment, segmentRegistry, getLineOffset, getLinePath,     *)
(* getStationShape) and the editor state of App.tsx.                       *)
(*                                                                         *)
(* Numbers.  Station coordinates are integers (the canvas snaps them to    *)
(* the grid).  Every length the router compares is the sum of an axis      *)
(* part and a 45-degree part, so it is a number a + b*sqrt(2) with a, b    *)
(* integers; such numbers are kept as records [a, b] and compared exactly  *)
(* (SignSqrt2).  Offsets, unit directions and offset points lie in the     *)
(* field Q(sqrt 2) and are kept as [a, b, d] = (a + b*sqrt(2)) / d.        *)
(***************************************************************************)
EXTENDS Integers, Sequences, FiniteSets, TLC

VARIABLES
    \* editor state (App.tsx)
    stations, lines, activeTool, selectedStationId, selectedLineId,
    activeLineBuilderId, history, future,
    \* the station drag of MapCanvas, and the number of ids uuidv4 has issued
    dragState, uuid,
    \* one call of the router: its arguments and the returned point list
    p1, p2, alternate, segment,
    \* one render of the canvas: the registry memo, and per line its path,
    \* per station its shape
    rendered, registry, linePaths, stationShapes,
    \* one call of generateMapLayout: the configured key, what the remote
    \* model does for the call, the position of the call and its promise
    apiKey, remote, phase, promise

editorVars == <<stations, lines, activeTool, selectedStationId, selectedLineId,
                activeLineBuilderId, history, future, dragState, uuid>>
routerVars == <<p1, p2, alternate, segment>>
renderVars == <<rendered, registry, linePaths, stationShapes>>
serviceVars == <<apiKey, remote, phase, promise>>
vars == <<stations, lines, activeTool, selectedStationId, selectedLineId,
          activeLineBuilderId, history, future, dragState, uuid, p1, p2, alternate, segment,
          rendered, registry, linePaths, stationShapes, apiKey, remote, phase, promise>>

\* ------------------------------------------------------------------ bounds
\* Router inputs range over the square -MaxCoord..MaxCoord in both axes.
MaxCoord == 3
\* Rendered documents place stations on the grid cells 0..LayoutMaxX by
\* 0..LayoutMaxY and hold up to MaxLines lines of up to MaxLen station ids.
LayoutMaxX == 2
LayoutMaxY == 1
MaxLines == 2
MaxLen == 3
\* Bundles hold up to MaxBundle lines over one pair of stations.
MaxBundle == 3
\* A line that revisits a station holds exactly MaxRevisitLen station ids.
MaxRevisitLen == 4
\* The JSON answer of the remote model holds up to MaxAnswerLines lines.
MaxAnswerLines == 2
\* The editor places stations on the grid cells 0..EditorMaxX of one row,
\* issues up to MaxUuid ids, keeps up to MaxHistory snapshots on the undo
\* and redo stacks together (MaxSession when every event of the editor is
\* taken, selections and drags included) and up to MaxStationIds ids on a
\* line.
EditorMaxX == 1
MaxUuid == 4
MaxHistory == 6
MaxSession == 3
MaxStationIds == 3

\* ------------------------------------------------------------ arithmetic
Abs(n) == IF n < 0 THEN -n ELSE n

Sign(n) == IF n > 0 THEN 1 ELSE IF n < 0 THEN -1 ELSE 0

\* The sign of the real number p + q*sqrt(2), p and q integers.
SignSqrt2(p, q) ==
    CASE p = 0 /\ q = 0 -> 0
      [] p >= 0 /\ q >= 0 -> 1
      [] p <= 0 /\ q <= 0 -> -1
      [] p > 0 /\ q < 0 -> IF p * p > 2 * q * q THEN 1 ELSE -1
      [] p < 0 /\ q > 0 -> IF 2 * q * q > p * p THEN 1 ELSE -1

\* x < y, x - y < r for lengths [a, b] = a + b*sqrt(2).
LenLess(x, y) == SignSqrt2(x.a - y.a, x.b - y.b) < 0

LenAdd(x, y) == [a |-> x.a + y.a, b |-> x.b + y.b]

\* |x - y| < 1
LenWithinOne(x, y) ==
    /\ SignSqrt2(x.a - y.a - 1, x.b - y.b) < 0
    /\ SignSqrt2(y.a - x.a - 1, y.b - x.b) < 0

\* Math.hypot(u, v) of a horizontal, vertical or 45-degree vector.  Every
\* vector tryPath measures is one of these by construction of the elbow.
HypotOcto(u, v) ==
    CASE v = 0 -> [a |-> Abs(u), b |-> 0]
      [] u = 0 -> [a |-> Abs(v), b |-> 0]
      [] Abs(u) = Abs(v) -> [a |-> 0, b |-> Abs(u)]

\* Mutant of WithinOvershoot: the factor 1.5 is dropped (len < direct).
WithinOvershootNoSlack(len, dx, dy) ==
    SignSqrt2(len.a * len.a + 2 * len.b * len.b - (dx * dx + dy * dy),
              2 * len.a * len.b) < 0

\* len < Math.hypot(dx, dy) * 1.5, both sides squared and scaled by 4:
\* 4(a + b sqrt2)^2 = 4a^2 + 8b^2 + 8ab sqrt2 < 9 (dx^2 + dy^2).
WithinOvershoot(len, dx, dy) ==
    SignSqrt2(4 * len.a * len.a + 8 * len.b * len.b - 9 * (dx * dx + dy * dy),
              8 * len.a * len.b) < 0

Pt(x, y) == [x |-> x, y |-> y]

\* ---------------------------------------------------------------- router
\* tryPath: one candidate [p1, mid, p2] with its length and family flag.
tryPath(q1, q2, mid, horizontalFirst) ==
    [points |-> <<q1, mid, q2>>,
     len |-> LenAdd(HypotOcto(mid.x - q1.x, mid.y - q1.y),
                    HypotOcto(q2.x - mid.x, q2.y - mid.y)),
     horizontalFirst |-> horizontalFirst]

\* Mutant of tryCandidates: the family flag follows the direction of the
\* straight leg, whichever end of the hop it is at.
tryCandidatesByLeg(q1, q2) ==
    LET x1 == q2.x + (q1.y - q2.y)
        x2 == q2.x - (q1.y - q2.y)
        y1 == q2.y + (q1.x - q2.x)
        y2 == q2.y - (q1.x - q2.x)
        x3 == q1.x + (q2.y - q1.y)
        x4 == q1.x - (q2.y - q1.y)
        y3 == q1.y + (q2.x - q1.x)
        y4 == q1.y - (q2.x - q1.x)
    IN  << tryPath(q1, q2, Pt(x1, q1.y), TRUE),
           tryPath(q1, q2, Pt(x2, q1.y), TRUE),
           tryPath(q1, q2, Pt(q1.x, y1), FALSE),
           tryPath(q1, q2, Pt(q1.x, y2), FALSE),
           tryPath(q1, q2, Pt(x3, q2.y), TRUE),
           tryPath(q1, q2, Pt(x4, q2.y), TRUE),
           tryPath(q1, q2, Pt(q2.x, y3), FALSE),
           tryPath(q1, q2, Pt(q2.x, y4), FALSE) >>

\* tryCandidates: the eight elbow candidates, in the order the code pushes them.
tryCandidates(q1, q2) ==
    LET x1 == q2.x + (q1.y - q2.y)
        x2 == q2.x - (q1.y - q2.y)
        y1 == q2.y + (q1.x - q2.x)
        y2 == q2.y - (q1.x - q2.x)
        x3 == q1.x + (q2.y - q1.y)
        x4 == q1.x - (q2.y - q1.y)
        y3 == q1.y + (q2.x - q1.x)
        y4 == q1.y - (q2.x - q1.x)
    IN  << tryPath(q1, q2, Pt(x1, q1.y), TRUE),
           tryPath(q1, q2, Pt(x2, q1.y), TRUE),
           tryPath(q1, q2, Pt(q1.x, y1), FALSE),
           tryPath(q1, q2, Pt(q1.x, y2), FALSE),
           tryPath(q1, q2, Pt(x3, q2.y), FALSE),
           tryPath(q1, q2, Pt(x4, q2.y), FALSE),
           tryPath(q1, q2, Pt(q2.x, y3), TRUE),
           tryPath(q1, q2, Pt(q2.x, y4), TRUE) >>

\* Array.prototype.filter
RECURSIVE FilterSeq(_, _)
FilterSeq(s, keep) ==
    IF s = <<>> THEN <<>>
    ELSE IF Head(s) \in keep THEN <<Head(s)>> \o FilterSeq(Tail(s), keep)
         ELSE FilterSeq(Tail(s), keep)

\* valid.sort((a, b) => a.len - b.len): a stable sort, shortest first.
RECURSIVE InsertByLen(_, _)
InsertByLen(s, c) ==
    IF s = <<>> THEN <<c>>
    ELSE IF LenLess(c.len, Head(s).len) THEN <<c>> \o s
         ELSE <<Head(s)>> \o InsertByLen(Tail(s), c)

RECURSIVE SortByLen(_)
SortByLen(s) ==
    IF s = <<>> THEN <<>>
    ELSE InsertByLen(SortByLen(SubSeq(s, 1, Len(s) - 1)), s[Len(s)])

\* Mutant of FamilyBefore: the alternate flag is ignored.
FamilyBeforeIgnoringFlag(a, b, alt) ==
    /\ a.horizontalFirst # b.horizontalFirst
    /\ a.horizontalFirst

\* The comparator of bestCandidates.sort: a negative result puts a before b.
FamilyBefore(a, b, alt) ==
    /\ a.horizontalFirst # b.horizontalFirst
    /\ IF alt THEN ~a.horizontalFirst ELSE a.horizontalFirst

RECURSIVE InsertByFamily(_, _, _)
InsertByFamily(s, c, alt) ==
    IF s = <<>> THEN <<c>>
    ELSE IF FamilyBefore(c, Head(s), alt) THEN <<c>> \o s
         ELSE <<Head(s)>> \o InsertByFamily(Tail(s), c, alt)

RECURSIVE SortByFamily(_, _)
SortByFamily(s, alt) ==
    IF s = <<>> THEN <<>>
    ELSE InsertByFamily(SortByFamily(SubSeq(s, 1, Len(s) - 1), alt), s[Len(s)], alt)

Range(s) == {s[i] : i \in DOMAIN s}

\* Mutant of IsAligned: the 45-degree test is left out.
IsAlignedNoDiagonal(adx, ady) == adx < 1 \/ ady < 1

\* "Straight lines or 45-degree lines don't need elbows"
IsAligned(adx, ady) == adx < 1 \/ ady < 1 \/ Abs(adx - ady) < 1

\* candidates.filter(c => c.len < direct * 1.5)
validCandidates(candidates, dx, dy) ==
    FilterSeq(candidates, {c \in Range(candidates) : WithinOvershoot(c.len, dx, dy)})

\* valid.filter(c => Math.abs(c.len - shortestLen) < 1) on the sorted list
bestCandidates(sorted) ==
    FilterSeq(sorted, {c \in Range(sorted) : LenWithinOne(c.len, sorted[1].len)})

\* if (valid.length === 0) return [p1, p2], else the best candidate's points
routeAmong(q1, q2, valid, alt) ==
    IF Len(valid) = 0
    THEN <<q1, q2>>
    ELSE SortByFamily(bestCandidates(SortByLen(valid)), alt)[1].points

getOctolinearSegment(q1, q2, alt) ==
    IF IsAligned(Abs(q2.x - q1.x), Abs(q2.y - q1.y))
    THEN <<q1, q2>>
    ELSE routeAmong(q1, q2,
             validCandidates(tryCandidates(q1, q2), q2.x - q1.x, q2.y - q1.y), alt)

\* --------------------------------------------------- numbers in Q(sqrt 2)
\* [a, b, d] is (a + b*sqrt(2)) / d with d > 0, kept in lowest terms.
RECURSIVE GCD(_, _)
GCD(m, n) == IF n = 0 THEN m ELSE GCD(n, m % n)

QOver(a, b, d, s) == [a |-> a \div s, b |-> b \div s, d |-> d \div s]

Q(a, b, d) ==
    QOver(a, b, d, (IF d < 0 THEN -1 ELSE 1) * GCD(GCD(Abs(a), Abs(b)), Abs(d)))

QInt(n) == [a |-> n, b |-> 0, d |-> 1]
QAdd(x, y) == Q(x.a * y.d + y.a * x.d, x.b * y.d + y.b * x.d, x.d * y.d)
QNeg(x) == [a |-> -x.a, b |-> -x.b, d |-> x.d]
QSub(x, y) == QAdd(x, QNeg(y))
QMul(x, y) == Q(x.a * y.a + 2 * x.b * y.b, x.a * y.b + x.b * y.a, x.d * y.d)
\* x / y for y # 0: 1 / (a + b sqrt2) = (a - b sqrt2) / (a^2 - 2 b^2)
QDiv(x, y) == QMul(x, Q(y.a * y.d, -(y.b * y.d), y.a * y.a - 2 * y.b * y.b))
QSign(x) == SignSqrt2(x.a, x.b)
QLess(x, y) == QSign(QSub(x, y)) < 0
QAbs(x) == IF QSign(x) < 0 THEN QNeg(x) ELSE x

\* A point with coordinates in Q(sqrt 2); QPt embeds a grid point.
QPoint(x, y) == [x |-> x, y |-> y]
QPt(p) == [x |-> QInt(p.x), y |-> QInt(p.y)]

\* ------------------------------------------------------ geometry helpers
\* getDir on the vector of a routed sub-segment: coincident points give the
\* zero vector, a horizontal or vertical vector a signed axis unit, a
\* 45-degree vector (+-sqrt2/2, +-sqrt2/2).  Consecutive routed points are
\* always of one of these kinds.
getDir(q1, q2) ==
    LET dx == q2.x - q1.x
        dy == q2.y - q1.y
    IN  CASE dx = 0 /\ dy = 0 -> QPoint(QInt(0), QInt(0))
          [] dx = 0 /\ dy # 0 -> QPoint(QInt(0), QInt(Sign(dy)))
          [] dy = 0 /\ dx # 0 -> QPoint(QInt(Sign(dx)), QInt(0))
          [] dx # 0 /\ Abs(dx) = Abs(dy) -> QPoint(Q(0, Sign(dx), 2), Q(0, Sign(dy), 2))

getNormal(v) == QPoint(QNeg(v.y), v.x)

\* Math.hypot(v.x, v.y) < 0.001 for a direction vector
IsZeroDir(v) ==
    QLess(QAdd(QMul(v.x, v.x), QMul(v.y, v.y)), Q(1, 0, 1000000))

Dot(u, v) == QAdd(QMul(u.x, v.x), QMul(u.y, v.y))

\* Intersection of two infinite lines (point, direction); parallel lines
\* fall back to the first point.
\* { x: p1.x + t * d1.x, y: p1.y + t * d1.y }
pointAlong(a1, d1, t) ==
    QPoint(QAdd(a1.x, QMul(t, d1.x)), QAdd(a1.y, QMul(t, d1.y)))

\* The body of getLineIntersection once det is known.
intersectionWithDet(a1, d1, a2, d2, det) ==
    IF QLess(QAbs(det), Q(1, 0, 10000))
    THEN a1
    ELSE pointAlong(a1, d1,
             QDiv(QSub(QMul(QSub(a2.x, a1.x), d2.y), QMul(QSub(a2.y, a1.y), d2.x)),
                  det))

getLineIntersection(a1, d1, a2, d2) ==
    intersectionWithDet(a1, d1, a2, d2, QSub(QMul(d1.x, d2.y), QMul(d1.y, d2.x)))

\* Number.prototype.toString for an integer, as a list of character codes
\* ('-' is 45, '0' is 48).
RECURSIVE Digits(_)
Digits(n) == IF n < 10 THEN <<48 + n>> ELSE Digits(n \div 10) \o <<48 + (n % 10)>>

NumberToString(n) == IF n < 0 THEN <<45>> \o Digits(-n) ELSE Digits(n)

\* pointKey: `${Math.round(p.x)},${Math.round(p.y)}` (',' is 44).  Routed
\* points have integer coordinates, which Math.round leaves alone.
pointKey(p) == NumberToString(p.x) \o <<44>> \o NumberToString(p.y)

\* kA < kB on strings: lexicographic order of the character codes.
RECURSIVE StringLess(_, _)
StringLess(s, t) ==
    IF t = <<>> THEN FALSE
    ELSE IF s = <<>> THEN TRUE
    ELSE IF Head(s) # Head(t) THEN Head(s) < Head(t)
    ELSE StringLess(Tail(s), Tail(t))

\* The normalised key `${kA}_${kB}` of an undirected segment ('_' is 95).
joinKeys(kA, kB) ==
    IF StringLess(kA, kB) THEN kA \o <<95>> \o kB ELSE kB \o <<95>> \o kA

segmentKey(pA, pB) == joinKeys(pointKey(pA), pointKey(pB))

\* ------------------------------------------------------ segment registry
\* stations.find(s => s.id === id); Undefined when no station has the id.
Undefined == [id |-> "undefined", x |-> 0, y |-> 0]

findStation(sts, id) ==
    IF \E i \in DOMAIN sts : sts[i].id = id
    THEN sts[CHOOSE i \in DOMAIN sts :
                 sts[i].id = id /\ \A j \in 1..(i - 1) : sts[j].id # id]
    ELSE Undefined

\* Mutant of resolveStations: resolution stops at the first dangling id.
RECURSIVE resolveStationsUntilDangling(_, _)
resolveStationsUntilDangling(sts, ids) ==
    IF ids = <<>> THEN <<>>
    ELSE IF findStation(sts, Head(ids)) = Undefined THEN <<>>
    ELSE <<Pt(findStation(sts, Head(ids)).x, findStation(sts, Head(ids)).y)>>
             \o resolveStationsUntilDangling(sts, Tail(ids))

\* line.stationIds.map(id => stations.find(...)).filter(Boolean)
RECURSIVE resolveStations(_, _)
resolveStations(sts, ids) ==
    IF ids = <<>> THEN <<>>
    ELSE LET s == findStation(sts, Head(ids))
         IN  (IF s = Undefined THEN <<>> ELSE <<Pt(s.x, s.y)>>)
                 \o resolveStations(sts, Tail(ids))

\* Array.prototype.indexOf, 0-based, -1 when absent.
indexOf(list, e) ==
    IF \E i \in DOMAIN list : list[i] = e
    THEN (CHOOSE i \in DOMAIN list : list[i] = e /\ \A j \in 1..(i - 1) : list[j] # e) - 1
    ELSE -1

\* Mutant of pushOnce: the includes() test is left out.
pushAlways(list, lineId) == Append(list, lineId)

\* if (!list.includes(lineId)) list.push(lineId)
pushOnce(list, lineId) ==
    IF indexOf(list, lineId) # -1 THEN list ELSE Append(list, lineId)

\* registry.has(key), registry.set(key, []), registry.get(key) and the push
registerKey(reg, key, lineId) ==
    [k \in DOMAIN reg \cup {key} |->
        IF k = key
        THEN pushOnce(IF key \in DOMAIN reg THEN reg[key] ELSE <<>>, lineId)
        ELSE reg[k]]

\* register: add the line to the list of the segment's key, once; segments
\* shorter than 1 (Math.hypot < 1, compared squared) are not registered.
register(reg, pA, pB, lineId) ==
    IF (pA.x - pB.x) * (pA.x - pB.x) + (pA.y - pB.y) * (pA.y - pB.y) < 1
    THEN reg
    ELSE registerKey(reg, segmentKey(pA, pB), lineId)

\* for (j = 0; j < pts.length - 1; j++) register(pts[j], pts[j+1], line.id)
RECURSIVE registerPoints(_, _, _)
registerPoints(reg, pts, lineId) ==
    IF Len(pts) < 2 THEN reg
    ELSE registerPoints(register(reg, pts[1], pts[2], lineId), Tail(pts), lineId)

\* for (i = 0; i < stationCoords.length - 1; i++) route and register hop i
RECURSIVE registerHops(_, _, _)
registerHops(reg, coords, line) ==
    IF Len(coords) < 2 THEN reg
    ELSE registerHops(
             registerPoints(reg,
                 getOctolinearSegment(coords[1], coords[2], line.alternateRoute),
                 line.id),
             Tail(coords), line)

\* Mutant of registerClosing: the closing hop is routed from the first
\* station to the last.
registerClosingFromFirst(reg, stationCoords, line) ==
    IF line.closedLoop
    THEN registerPoints(reg,
             getOctolinearSegment(stationCoords[1],
                                  stationCoords[Len(stationCoords)],
                                  line.alternateRoute),
             line.id)
    ELSE reg

\* The body of lines.forEach in segmentRegistry.
\* if (line.closedLoop) route and register the hop from the last station
\* to the first
registerClosing(reg, stationCoords, line) ==
    IF line.closedLoop
    THEN registerPoints(reg,
             getOctolinearSegment(stationCoords[Len(stationCoords)],
                                  stationCoords[1], line.alternateRoute),
             line.id)
    ELSE reg

registerCoords(reg, stationCoords, line) ==
    IF Len(stationCoords) < 2 THEN reg
    ELSE registerClosing(registerHops(reg, stationCoords, line), stationCoords, line)

registerLine(reg, sts, line) ==
    IF Len(line.stationIds) < 2 THEN reg
    ELSE registerCoords(reg, resolveStations(sts, line.stationIds), line)

RECURSIVE registerLines(_, _, _)
registerLines(reg, sts, lns) ==
    IF lns = <<>> THEN reg
    ELSE registerLines(registerLine(reg, sts, Head(lns)), sts, Tail(lns))

\* list.sort() on line ids.  Line ids are modelled as naturals that order
\* as the id strings do.
RECURSIVE InsertId(_, _)
InsertId(s, id) ==
    IF s = <<>> THEN <<id>>
    ELSE IF id < Head(s) THEN <<id>> \o s
         ELSE <<Head(s)>> \o InsertId(Tail(s), id)

\* Mutant of sortIds: the lists keep their insertion order.
sortIdsOmitted(list) == list

RECURSIVE sortIds(_)
sortIds(list) ==
    IF list = <<>> THEN <<>>
    ELSE InsertId(sortIds(SubSeq(list, 1, Len(list) - 1)), list[Len(list)])

\* segmentRegistry: key -> sorted list of the ids of the lines on the segment.
\* registry.forEach(list => list.sort())
sortLists(filled) == [k \in DOMAIN filled |-> sortIds(filled[k])]

segmentRegistry(sts, lns) == sortLists(registerLines(<<>>, sts, lns))

\* ---------------------------------------------------------- line offset
LINE_SPACING == 7

\* Mutant of centeredOffset: the bundle is centred on count / 2.
centeredOffsetOffByHalf(index, count) == Q((2 * index - count) * LINE_SPACING, 0, 2)

\* Mutant of centeredOffset: ranks are counted from 1.
centeredOffsetOneBased(index, count) == Q((2 * index - (count + 1)) * LINE_SPACING, 0, 2)

\* (index - (count - 1) / 2) * LINE_SPACING
centeredOffset(index, count) == Q((2 * index - (count - 1)) * LINE_SPACING, 0, 2)

\* if (index === -1) return 0, else the centered offset
offsetAt(index, count) ==
    IF index = -1 THEN QInt(0) ELSE centeredOffset(index, count)

\* if (!linesOnSeg) return 0, else the offset of the line's rank
offsetUnder(reg, key, lineId) ==
    IF key \notin DOMAIN reg THEN QInt(0)
    ELSE offsetAt(indexOf(reg[key], lineId), Len(reg[key]))

getLineOffset(reg, q1, q2, lineId) == offsetUnder(reg, segmentKey(q1, q2), lineId)

\* ------------------------------------------------------- path generation
\* Squared length of the vector from u to v (points in Q(sqrt 2)).
QSquare(x) == QMul(x, x)

QDist2(u, v) == QAdd(QSquare(QSub(v.x, u.x)), QSquare(QSub(v.y, u.y)))

QMin(x, y) == IF QLess(y, x) THEN y ELSE x

\* Mutant of cornerRadius2: the full lengths are used instead of the halves.
cornerRadius2FullLength(a, b, c, cornerRadius) ==
    QMin(QInt(cornerRadius * cornerRadius), QMin(QDist2(a, b), QDist2(b, c)))

\* The square of r = Math.min(cornerRadius, len1 / 2, len2 / 2) at the
\* vertex b between a and c.
cornerRadius2(a, b, c, cornerRadius) ==
    QMin(QInt(cornerRadius * cornerRadius),
         QMin(QMul(QDist2(a, b), Q(1, 0, 4)), QMul(QDist2(b, c), Q(1, 0, 4))))

\* Mutant of cornerCommand: the r < 1 test is left out.
cornerCommandAlwaysCurve(p, r2) == [op |-> "LQ", p |-> p, r2 |-> r2]

\* if (r < 1) a line-to the vertex, else the line-to and the curve around it
cornerCommand(p, r2) ==
    IF QLess(r2, QInt(1))
    THEN [op |-> "L", p |-> p]
    ELSE [op |-> "LQ", p |-> p, r2 |-> r2]

\* The loop of generateSmoothPath over the interior vertices i .. n - 1: a
\* plain line-to when r < 1, else the line-to and quadratic curve around the
\* vertex, recorded as the vertex and the square of its radius.
RECURSIVE smoothCorners(_, _, _)
smoothCorners(points, i, cornerRadius) ==
    IF i > Len(points) - 1 THEN <<>>
    ELSE <<cornerCommand(points[i],
               cornerRadius2(points[i - 1], points[i], points[i + 1], cornerRadius))>>
             \o smoothCorners(points, i + 1, cornerRadius)

\* generateSmoothPath: the path commands; <<>> is the empty string "".
generateSmoothPath(points, cornerRadius) ==
    IF Len(points) < 2 THEN <<>>
    ELSE <<[op |-> "M", p |-> points[1]]>>
             \o smoothCorners(points, 2, cornerRadius)
             \o <<[op |-> "L", p |-> points[Len(points)]]>>

\* The hops getLinePath routes: consecutive resolved stations, then the
\* closing hop of a closed loop.
RECURSIVE pathHops(_)
pathHops(coords) ==
    IF Len(coords) < 2 THEN <<>>
    ELSE <<<<coords[1], coords[2]>>>> \o pathHops(Tail(coords))

\* Mutant of routedHops: the wrap-around hop is left out.
routedHopsNoWrap(coords, closedLoop) == pathHops(coords)

routedHops(coords, closedLoop) ==
    pathHops(coords)
        \o (IF closedLoop THEN <<<<coords[Len(coords)], coords[1]>>>> ELSE <<>>)

\* for (j = 1; j < seg.length; j++) rawPoints.push(seg[j]), over the hops
RECURSIVE pushHops(_, _, _)
pushHops(rawPoints, hops, alt) ==
    IF hops = <<>> THEN rawPoints
    ELSE pushHops(rawPoints \o Tail(getOctolinearSegment(hops[1][1], hops[1][2], alt)),
                  Tail(hops), alt)

\* Step 1 of getLinePath: the raw centerline, with rawPoints[1] repeated at
\* the end of a closed loop ("Wrap for corner calculation").
\* if (line.closedLoop) rawPoints.push(rawPoints[1])
pushWrap(pts, closedLoop) == IF closedLoop THEN Append(pts, pts[2]) ELSE pts

rawCenterline(coords, line) ==
    pushWrap(pushHops(<<coords[1]>>, routedHops(coords, line.closedLoop),
                      line.alternateRoute),
             line.closedLoop)

\* pCurr shifted along the normal of dir by offset
shiftAlong(pCurr, n, offset) ==
    QPoint(QAdd(QInt(pCurr.x), QMul(n.x, offset)),
           QAdd(QInt(pCurr.y), QMul(n.y, offset)))

shiftPoint(pCurr, dir, offset) == shiftAlong(pCurr, getNormal(dir), offset)

\* One iteration of the offset loop, for the vertex rawPoints[k] (k is the
\* code's i + 1, maxK its maxIdx + 1).
\* "Corner intersection" once dIn and dOut are known: the vertex itself when
\* a direction is zero, else the intersection of the two shifted lines.
cornerBetween(reg, pPrev, pCurr, pNext, dIn, dOut, lineId) ==
    IF IsZeroDir(dIn) \/ IsZeroDir(dOut)
    THEN QPt(pCurr)
    ELSE getLineIntersection(
             shiftPoint(pCurr, dIn, getLineOffset(reg, pPrev, pCurr, lineId)),
             dIn,
             shiftPoint(pCurr, dOut, getLineOffset(reg, pCurr, pNext, lineId)),
             dOut)

cornerVertex(reg, pPrev, pCurr, pNext, lineId) ==
    cornerBetween(reg, pPrev, pCurr, pNext, getDir(pPrev, pCurr),
                  getDir(pCurr, pNext), lineId)

\* Start or end of an open line: pCurr shifted perpendicular to the
\* sub-segment from pA to pB.
endVertex(reg, pCurr, pA, pB, lineId) ==
    shiftPoint(pCurr, getDir(pA, pB), getLineOffset(reg, pA, pB, lineId))

offsetVertex(reg, rawPoints, k, maxK, line) ==
    IF k = 1 /\ ~line.closedLoop
    THEN endVertex(reg, rawPoints[k], rawPoints[k], rawPoints[k + 1], line.id)
    ELSE IF k = maxK /\ ~line.closedLoop
    THEN endVertex(reg, rawPoints[k], rawPoints[k - 1], rawPoints[k], line.id)
    ELSE cornerVertex(reg,
             IF k > 1 THEN rawPoints[k - 1] ELSE rawPoints[maxK],
             rawPoints[k],
             IF k < maxK THEN rawPoints[k + 1] ELSE rawPoints[2],
             line.id)

\* Mutant of closeRing: the first offset point is not repeated.
closeRingOmitted(offsetPoints, closedLoop) == offsetPoints

\* "Close the path visually"
closeRing(offsetPoints, closedLoop) ==
    IF closedLoop /\ Len(offsetPoints) > 0
    THEN Append(offsetPoints, offsetPoints[1])
    ELSE offsetPoints

\* getLinePath: the routed hops, the raw centerline, the offset points handed
\* to generateSmoothPath and the path it returns (d).
\* Step 2 of getLinePath: the loop over the vertices 0 .. maxIdx
offsetLoop(reg, rawPoints, maxK, line) ==
    [k \in 1..maxK |-> offsetVertex(reg, rawPoints, k, maxK, line)]

\* const maxIdx = line.closedLoop ? rawPoints.length - 2 : rawPoints.length - 1
maxIndex(rawPoints, closedLoop) ==
    IF closedLoop THEN Len(rawPoints) - 1 ELSE Len(rawPoints)

pathRecord(hops, rawPoints, offsetPoints) ==
    [hops |-> hops, rawPoints |-> rawPoints, offsetPoints |-> offsetPoints,
     d |-> generateSmoothPath(offsetPoints, 16)]

pathAlong(reg, hops, rawPoints, line) ==
    pathRecord(hops, rawPoints,
        closeRing(offsetLoop(reg, rawPoints, maxIndex(rawPoints, line.closedLoop), line),
                  line.closedLoop))

\* Mutant of pathThrough: a closed loop over a single station is drawn.
pathThroughLoopOfOne(reg, coords, line) ==
    IF Len(coords) < 1 \/ (Len(coords) < 2 /\ ~line.closedLoop)
    THEN [hops |-> <<>>, rawPoints |-> <<>>, offsetPoints |-> <<>>, d |-> <<>>]
    ELSE pathAlong(reg, routedHops(coords, line.closedLoop),
                   rawCenterline(coords, line), line)

pathThrough(reg, coords, line) ==
    IF Len(coords) < 2
    THEN [hops |-> <<>>, rawPoints |-> <<>>, offsetPoints |-> <<>>, d |-> <<>>]
    ELSE pathAlong(reg, routedHops(coords, line.closedLoop),
                   rawCenterline(coords, line), line)

getLinePath(sts, reg, line) ==
    pathThrough(reg, resolveStations(sts, line.stationIds), line)

\* --------------------------------------------------------- station shape
\* Array.prototype.includes
includes(list, e) == indexOf(list, e) # -1

\* No point: the null of pPrev, pNext and bundleDir.
Null == [null |-> TRUE]

\* "Find prev geometric point": the routed point before the station on the
\* line, or Null.
\* seg[seg.length - 2]
beforeLast(seg) == seg[Len(seg) - 1]

\* if (sPrev) the point before the station on the hop from sPrev
pointFrom(sPrev, stationPt, alt) ==
    IF sPrev = Undefined THEN Null
    ELSE beforeLast(getOctolinearSegment(Pt(sPrev.x, sPrev.y), stationPt, alt))

prevPoint(sts, line, idx, stationPt) ==
    pointFrom(findStation(sts,
                  IF idx # 0 THEN line.stationIds[idx]
                  ELSE IF line.closedLoop THEN line.stationIds[Len(line.stationIds)]
                  ELSE "undefined"),
              stationPt, line.alternateRoute)

\* "Find next geometric point"
\* if (sNext) the point after the station on the hop to sNext
pointTo(sNext, stationPt, alt) ==
    IF sNext = Undefined THEN Null
    ELSE getOctolinearSegment(stationPt, Pt(sNext.x, sNext.y), alt)[2]

nextPoint(sts, line, idx, stationPt) ==
    pointTo(findStation(sts,
                IF idx # Len(line.stationIds) - 1 THEN line.stationIds[idx + 2]
                ELSE IF line.closedLoop THEN line.stationIds[1]
                ELSE "undefined"),
            stationPt, line.alternateRoute)

\* Mutant of isStraight: any angle below 90 degrees counts as straight.
isStraightLoose(dot) == ~QLess(dot, QInt(0)) /\ QSign(dot) # 0

\* dot >= 0.99
isStraight(dot) == ~QLess(dot, Q(99, 0, 100))

\* The loop over passingLines: the bundle direction when every line passes
\* straight through in the direction of the first, else Null.
RECURSIVE bundleDirection(_, _, _, _)

\* "Check if Straight" and "Check compatibility with bundle" for one line,
\* then the rest of the loop.
checkDirections(sts, passing, station, bundleDir, dIn, dOut) ==
    IF ~isStraight(Dot(dIn, dOut)) THEN Null
    ELSE IF bundleDir = Null
    THEN bundleDirection(sts, Tail(passing), station, dOut)
    ELSE IF ~isStraight(Dot(bundleDir, dOut)) THEN Null
    ELSE bundleDirection(sts, Tail(passing), station, bundleDir)

\* "Must pass through"
checkThrough(sts, passing, station, bundleDir, stationPt, pPrev, pNext) ==
    IF pPrev = Null \/ pNext = Null THEN Null
    ELSE checkDirections(sts, passing, station, bundleDir,
                         getDir(pPrev, stationPt), getDir(stationPt, pNext))

checkLine(sts, passing, station, bundleDir, line, idx, stationPt) ==
    checkThrough(sts, passing, station, bundleDir, stationPt,
                 prevPoint(sts, line, idx, stationPt),
                 nextPoint(sts, line, idx, stationPt))

bundleDirection(sts, passing, station, bundleDir) ==
    IF passing = <<>> THEN bundleDir
    ELSE checkLine(sts, passing, station, bundleDir, Head(passing),
                   indexOf(Head(passing).stationIds, station.id),
                   Pt(station.x, station.y))

\* Math.atan2(v.y, v.x) * 180 / Math.PI for a unit octolinear vector.
degreesOf(sx, sy) ==
    CASE sx = 1 /\ sy = 0 -> 0
      [] sx = 1 /\ sy = 1 -> 45
      [] sx = 0 /\ sy = 1 -> 90
      [] sx = -1 /\ sy = 1 -> 135
      [] sx = -1 /\ sy = 0 -> 180
      [] sx = -1 /\ sy = -1 -> -135
      [] sx = 0 /\ sy = -1 -> -90
      [] sx = 1 /\ sy = -1 -> -45

atan2Degrees(v) == degreesOf(QSign(v.x), QSign(v.y))

\* lines.filter(l => l.stationIds.includes(station.id))
passingLines(lns, station) ==
    FilterSeq(lns, {l \in Range(lns) : includes(l.stationIds, station.id)})

\* Mutant of shapeOf: the pill's angle is that of the flow direction itself.
shapeOfAlongFlow(count, bundleDir) ==
    IF bundleDir # Null
    THEN [type |-> "pill", count |-> count, angle |-> atan2Degrees(bundleDir)]
    ELSE [type |-> "standard", count |-> count, angle |-> 0]

\* if (validPill && bundleDir) a pill along the bundle's normal, else standard
shapeOf(count, bundleDir) ==
    IF bundleDir # Null
    THEN [type |-> "pill", count |-> count,
          angle |-> atan2Degrees(getNormal(bundleDir))]
    ELSE [type |-> "standard", count |-> count, angle |-> 0]

shapeAmong(sts, passing, station) ==
    IF Len(passing) < 2
    THEN [type |-> "standard", count |-> 1, angle |-> 0]
    ELSE shapeOf(Len(passing), bundleDirection(sts, passing, station, Null))

getStationShape(sts, lns, station) ==
    shapeAmong(sts, passingLines(lns, station), station)

\* ------------------------------------------------------- router harness
Coords == (-MaxCoord)..MaxCoord
GridPoints == {Pt(x, y) : x \in Coords, y \in Coords}

RenderIdle ==
    /\ rendered = FALSE
    /\ registry = <<>>
    /\ linePaths = <<>>
    /\ stationShapes = <<>>

\* A layout with no station and no line; the value slot of a promise that
\* is pending, rejected or resolved to null.
NoLayout == [stations |-> <<>>, lines |-> <<>>]

\* The promise generateMapLayout returns, before it settles.
Pending == [state |-> "pending", isNull |-> FALSE, value |-> NoLayout]

\* No call of generateMapLayout is under way; the key is configured and the
\* remote model, were it called, would throw.
ServiceIdle ==
    /\ apiKey = "key"
    /\ remote = [kind |-> "throws"]
    /\ phase = "idle"
    /\ promise = Pending

\* null in selectedLineId and activeLineBuilderId (line ids start at 1)
NoLine == 0
\* null in dragState
NoDrag == <<>>

EditorIdle ==
    /\ stations = <<>>
    /\ lines = <<>>
    /\ activeTool = "SELECT"
    /\ selectedStationId = "null"
    /\ selectedLineId = NoLine
    /\ activeLineBuilderId = NoLine
    /\ history = <<>>
    /\ future = <<>>
    /\ dragState = NoDrag
    /\ uuid = 0

RouterInit ==
    /\ EditorIdle
    /\ p1 \in GridPoints
    /\ p2 \in GridPoints
    /\ alternate \in BOOLEAN
    /\ segment = <<>>
    /\ RenderIdle
    /\ ServiceIdle

\* One call getOctolinearSegment(p1, p2, alternate).
RouteSegment ==
    /\ segment = <<>>
    /\ segment' = getOctolinearSegment(p1, p2, alternate)
    /\ UNCHANGED <<p1, p2, alternate>>
    /\ UNCHANGED editorVars
    /\ UNCHANGED renderVars
    /\ UNCHANGED serviceVars

RouterNext == RouteSegment

RouterSpec == RouterInit /\ [][RouterNext]_vars

\* ------------------------------------------------------- layout harness
\* One render of MapCanvas over a document (stations, lines): the registry
\* memo, the path of every line and the shape of every station.
GRID_SIZE == 20

LayoutPoints ==
    {Pt(GRID_SIZE * i, GRID_SIZE * j) : i \in 0..LayoutMaxX, j \in 0..LayoutMaxY}

Station(id, p) == [id |-> id, x |-> p.x, y |-> p.y]

Line(id, stationIds, closedLoop, alternateRoute) ==
    [id |-> id, stationIds |-> stationIds, closedLoop |-> closedLoop,
     alternateRoute |-> alternateRoute]

\* Sequences of at most n station ids with no id twice in a row (the data
\* model's stationIds).
RECURSIVE StationIdSeqs(_, _)
StationIdSeqs(ids, n) ==
    IF n = 0 THEN {<<>>}
    ELSE LET shorter == StationIdSeqs(ids, n - 1)
         IN  shorter \cup
             {Append(s, e) : s \in {t \in shorter : Len(t) = n - 1},
                             e \in ids}

NoAdjacentRepeat(s) == \A i \in 1..(Len(s) - 1) : s[i] # s[i + 1]

\* Stations of a document: s1 at the origin, s2 one grid step to its right,
\* s3 anywhere on the grid or missing (its id is then dangling in the lines);
\* or no station at all.
RichStations ==
    {<<Station("s1", Pt(0, 0)), Station("s2", Pt(GRID_SIZE, 0)), Station("s3", q3)>> :
        q3 \in LayoutPoints}
    \cup {<<Station("s1", Pt(0, 0)), Station("s2", Pt(GRID_SIZE, 0))>>}
    \cup {<<>>}

\* From no line up to MaxLines lines of up to MaxLen station ids each, ids
\* in array order.
RichLines ==
    LET shapes == {[stationIds |-> s, closedLoop |-> c, alternateRoute |-> a] :
                      s \in {t \in StationIdSeqs({"s1", "s2", "s3"}, MaxLen) :
                                NoAdjacentRepeat(t)},
                      c \in BOOLEAN, a \in BOOLEAN}
    IN  UNION {{[i \in 1..n |-> Line(i, f[i].stationIds, f[i].closedLoop,
                                     f[i].alternateRoute)] : f \in [1..n -> shapes]} :
               n \in 0..MaxLines}

\* Bundles: up to MaxBundle lines that each join s1 and s2 directly, in
\* either direction, with the ids in any order along the lines array.
BundleStations ==
    {<<Station("s1", Pt(0, 0)), Station("s2", q2)>> : q2 \in LayoutPoints}

BundleLines ==
    LET shapes == {[stationIds |-> s, alternateRoute |-> a] :
                      s \in {<<"s1", "s2">>, <<"s2", "s1">>}, a \in BOOLEAN}
    IN  UNION {{[i \in 1..n |-> Line(ids[i], f[i].stationIds, FALSE,
                                     f[i].alternateRoute)] :
                   f \in [1..n -> shapes],
                   ids \in {g \in [1..n -> 1..n] : \A i, j \in 1..n : g[i] = g[j] => i = j}} :
               n \in 1..MaxBundle}

\* Revisits: a first line of exactly MaxRevisitLen station ids, which can
\* return to a station it has already passed, and at most one second line of
\* two or three ids.
RevisitStations ==
    {<<Station("s1", Pt(0, 0)), Station("s2", Pt(GRID_SIZE, 0)), Station("s3", q3)>> :
        q3 \in LayoutPoints}

RevisitLines ==
    LET ids == {"s1", "s2", "s3"}
        long == {t \in StationIdSeqs(ids, MaxRevisitLen) :
                    Len(t) = MaxRevisitLen /\ NoAdjacentRepeat(t)}
        short == {t \in StationIdSeqs(ids, MaxLen) : Len(t) >= 2 /\ NoAdjacentRepeat(t)}
        first == {Line(1, t, c, a) : t \in long, c \in BOOLEAN, a \in BOOLEAN}
        second == {Line(2, t, c, FALSE) : t \in short, c \in BOOLEAN}
    IN  {<<l>> : l \in first} \cup {<<l, m>> : l \in first, m \in second}

RouterIdle ==
    /\ p1 = Pt(0, 0)
    /\ p2 = Pt(0, 0)
    /\ alternate = FALSE
    /\ segment = <<>>

\* alternateRoute is read only when a hop is not aligned: documents whose
\* stations are pairwise aligned are taken with the flag unset.
HasElbowPair(sts) ==
    \E i, j \in DOMAIN sts :
        ~IsAligned(Abs(sts[j].x - sts[i].x), Abs(sts[j].y - sts[i].y))

LayoutInit ==
    /\ \/ stations \in RichStations /\ lines \in RichLines
       \/ stations \in BundleStations /\ lines \in BundleLines
       \/ stations \in RevisitStations /\ lines \in RevisitLines
    /\ (\E i \in DOMAIN lines : lines[i].alternateRoute) => HasElbowPair(stations)
    /\ activeTool = "SELECT"
    /\ selectedStationId = "null"
    /\ selectedLineId = NoLine
    /\ activeLineBuilderId = NoLine
    /\ history = <<>>
    /\ future = <<>>
    /\ dragState = NoDrag
    /\ uuid = 0
    /\ RouterIdle
    /\ rendered = FALSE
    /\ registry = <<>>
    /\ linePaths = <<>>
    /\ stationShapes = <<>>
    /\ ServiceIdle

Render ==
    /\ ~rendered
    /\ rendered' = TRUE
    /\ registry' = segmentRegistry(stations, lines)
    /\ linePaths' = [i \in DOMAIN lines |-> getLinePath(stations, registry', lines[i])]
    /\ stationShapes' = [i \in DOMAIN stations |->
                            getStationShape(stations, lines, stations[i])]
    /\ UNCHANGED editorVars
    /\ UNCHANGED routerVars
    /\ UNCHANGED serviceVars

LayoutNext == Render

LayoutSpec == LayoutInit /\ [][LayoutNext]_vars

\* --------------------------------------------------------------- editor
\* The editor of App.tsx driven by the events of the toolbar, the canvas,
\* the property panel and the keyboard.  A station carries id, x, y and a
\* line id, stationIds, closedLoop, alternateRoute; the display-only
\* fields (name, type, labelOffset, color, width) are left out, and with
\* them the handlers that change nothing else.
ToolModes == {"SELECT", "ADD_STATION", "ADD_LINE", "DELETE"}

\* The grid points a click or a drag can land on after snapToGrid.
EditorPoints == {Pt(GRID_SIZE * i, 0) : i \in 0..EditorMaxX}

\* uuidv4(): the ids are issued in this order, never twice.
StationIdTable == <<"s1", "s2", "s3", "s4", "s5", "s6">>
newStationId == StationIdTable[uuid + 1]
newLineId == uuid + 1

Snapshot(sts, lns) == [stations |-> sts, lines |-> lns]

\* Mutant of saveHistory: the test against the top snapshot is left out.
saveHistoryAlways == Append(history, Snapshot(stations, lines))

\* saveHistory: the history stack after the call (future becomes []).
saveHistory ==
    IF history # <<>> /\ history[Len(history)] = Snapshot(stations, lines)
    THEN history
    ELSE Append(history, Snapshot(stations, lines))

\* The stacks are kept within cap snapshots.
CanSave(cap) == Len(saveHistory) <= cap

hasStation(sts, id) == \E i \in DOMAIN sts : sts[i].id = id
hasLine(lns, id) == \E i \in DOMAIN lns : lns[i].id = id
findLine(lns, id) == lns[CHOOSE i \in DOMAIN lns : lns[i].id = id]

\* handleUpdateLine(id, {stationIds}) and its two checkbox forms
withStationIds(l, ids) == [l EXCEPT !.stationIds = ids]

\* Mutant of keepLine: one-station lines are dropped too.
keepLineOfTwo(l) == Len(l.stationIds) > 1

\* .filter(l => l.stationIds.length > 0)
keepLine(l) == Len(l.stationIds) > 0

\* Mutant of withoutId: only the first occurrence of the id is removed.
RECURSIVE withoutIdFirstOnly(_, _)
withoutIdFirstOnly(ids, id) ==
    IF ids = <<>> THEN <<>>
    ELSE IF Head(ids) # id THEN <<Head(ids)>> \o withoutIdFirstOnly(Tail(ids), id)
         ELSE Tail(ids)

\* .filter(sid => sid !== id)
RECURSIVE withoutId(_, _)
withoutId(ids, id) ==
    IF ids = <<>> THEN <<>>
    ELSE IF Head(ids) # id THEN <<Head(ids)>> \o withoutId(Tail(ids), id)
         ELSE withoutId(Tail(ids), id)

RECURSIVE linesWithoutStation(_, _)
linesWithoutStation(lns, id) ==
    IF lns = <<>> THEN <<>>
    ELSE LET l == withStationIds(Head(lns), withoutId(Head(lns).stationIds, id))
         IN  (IF keepLine(l) THEN <<l>> ELSE <<>>)
                 \o linesWithoutStation(Tail(lns), id)

RECURSIVE stationsWithout(_, _)
stationsWithout(sts, id) ==
    IF sts = <<>> THEN <<>>
    ELSE IF Head(sts).id # id THEN <<Head(sts)>> \o stationsWithout(Tail(sts), id)
         ELSE stationsWithout(Tail(sts), id)

RECURSIVE linesWithout(_, _)
linesWithout(lns, id) ==
    IF lns = <<>> THEN <<>>
    ELSE IF Head(lns).id # id THEN <<Head(lns)>> \o linesWithout(Tail(lns), id)
         ELSE linesWithout(Tail(lns), id)

\* Mutant of appendStation: the test against the last id is left out.
appendStationAlways(ids, stationId) == Append(ids, stationId)

\* handleLineAdd with an active line: append unless it repeats the last id.
appendStation(ids, stationId) ==
    IF ids[Len(ids)] # stationId THEN Append(ids, stationId) ELSE ids

Init ==
    /\ EditorIdle
    /\ RouterIdle
    /\ RenderIdle
    /\ ServiceIdle

\* Mutant of SetTool: the line builder is kept whatever the tool.
SetToolKeepingBuilder(t) ==
    /\ activeTool' = t
    /\ UNCHANGED <<stations, lines, selectedStationId, selectedLineId, history,
                   future, dragState, uuid, activeLineBuilderId>>
    /\ UNCHANGED <<routerVars, renderVars, serviceVars>>

\* Toolbar setTool
SetTool(t) ==
    /\ activeTool' = t
    /\ activeLineBuilderId' = IF t # "ADD_LINE" THEN NoLine ELSE activeLineBuilderId
    /\ UNCHANGED <<stations, lines, selectedStationId, selectedLineId, history,
                   future, dragState, uuid>>
    /\ UNCHANGED <<routerVars, renderVars, serviceVars>>

\* handleMouseDown with the AddStation tool: saveHistory, handleAddStation.
AddStation(q, cap) ==
    /\ activeTool = "ADD_STATION"
    /\ uuid < MaxUuid
    /\ CanSave(cap)
    /\ history' = saveHistory
    /\ future' = <<>>
    /\ stations' = Append(stations, Station(newStationId, q))
    /\ selectedStationId' = newStationId
    /\ uuid' = uuid + 1
    /\ UNCHANGED <<lines, activeTool, selectedLineId, activeLineBuilderId, dragState>>
    /\ UNCHANGED <<routerVars, renderVars, serviceVars>>

\* handleMouseDown with the Select tool on the background.
Deselect ==
    /\ activeTool = "SELECT"
    /\ selectedStationId' = "null"
    /\ selectedLineId' = NoLine
    /\ UNCHANGED <<stations, lines, activeTool, activeLineBuilderId, history,
                   future, dragState, uuid>>
    /\ UNCHANGED <<routerVars, renderVars, serviceVars>>

\* handleStationMouseDown with the Select tool.
PressStation(s, cap) ==
    /\ activeTool = "SELECT"
    /\ CanSave(cap)
    /\ selectedStationId' = stations[s].id
    /\ selectedLineId' = NoLine
    /\ history' = saveHistory
    /\ future' = <<>>
    /\ dragState' = <<stations[s].id>>
    /\ UNCHANGED <<stations, lines, activeTool, activeLineBuilderId, uuid>>
    /\ UNCHANGED <<routerVars, renderVars, serviceVars>>

\* handleStationMouseDown with the AddLine tool and no active line.
StartLine(s, cap) ==
    /\ activeTool = "ADD_LINE"
    /\ activeLineBuilderId = NoLine
    /\ uuid < MaxUuid
    /\ CanSave(cap)
    /\ history' = saveHistory
    /\ future' = <<>>
    /\ lines' = Append(lines, Line(newLineId, <<stations[s].id>>, FALSE, FALSE))
    /\ activeLineBuilderId' = newLineId
    /\ selectedLineId' = newLineId
    /\ uuid' = uuid + 1
    /\ UNCHANGED <<stations, activeTool, selectedStationId, dragState>>
    /\ UNCHANGED <<routerVars, renderVars, serviceVars>>

\* handleStationMouseDown with the AddLine tool and an active line.
ExtendLine(s, cap) ==
    /\ activeTool = "ADD_LINE"
    /\ activeLineBuilderId # NoLine
    /\ CanSave(cap)
    /\ history' = saveHistory
    /\ future' = <<>>
    /\ lines' =
           IF hasLine(lines, activeLineBuilderId)
           THEN [i \in DOMAIN lines |->
                    IF lines[i].id = activeLineBuilderId
                    THEN withStationIds(lines[i],
                             appendStation(findLine(lines, activeLineBuilderId).stationIds,
                                           stations[s].id))
                    ELSE lines[i]]
           ELSE lines
    /\ \A i \in DOMAIN lines' : Len(lines'[i].stationIds) <= MaxStationIds
    /\ UNCHANGED <<stations, activeTool, selectedStationId, selectedLineId,
                   activeLineBuilderId, dragState, uuid>>
    /\ UNCHANGED <<routerVars, renderVars, serviceVars>>

\* handleStationMouseDown with the Delete tool: handleDelete('station', id).
DeleteStation(s, cap) ==
    /\ activeTool = "DELETE"
    /\ CanSave(cap)
    /\ history' = saveHistory
    /\ future' = <<>>
    /\ stations' = stationsWithout(stations, stations[s].id)
    /\ lines' = linesWithoutStation(lines, stations[s].id)
    /\ selectedStationId' =
           IF selectedStationId = stations[s].id THEN "null" ELSE selectedStationId
    /\ UNCHANGED <<activeTool, selectedLineId, activeLineBuilderId, dragState, uuid>>
    /\ UNCHANGED <<routerVars, renderVars, serviceVars>>

\* handleWindowMouseMove during a station drag: handleStationMove.
MoveStation(q) ==
    /\ dragState # NoDrag
    /\ stations' = [i \in DOMAIN stations |->
                       IF stations[i].id = dragState[1]
                       THEN [stations[i] EXCEPT !.x = q.x, !.y = q.y]
                       ELSE stations[i]]
    /\ UNCHANGED <<lines, activeTool, selectedStationId, selectedLineId,
                   activeLineBuilderId, history, future, dragState, uuid>>
    /\ UNCHANGED <<routerVars, renderVars, serviceVars>>

\* handleWindowMouseUp
ReleaseStation ==
    /\ dragState # NoDrag
    /\ dragState' = NoDrag
    /\ UNCHANGED <<stations, lines, activeTool, selectedStationId, selectedLineId,
                   activeLineBuilderId, history, future, uuid>>
    /\ UNCHANGED <<routerVars, renderVars, serviceVars>>

\* handleLineClick with the Select tool.
SelectLine(l) ==
    /\ activeTool = "SELECT"
    /\ selectedLineId' = lines[l].id
    /\ selectedStationId' = "null"
    /\ UNCHANGED <<stations, lines, activeTool, activeLineBuilderId, history,
                   future, dragState, uuid>>
    /\ UNCHANGED <<routerVars, renderVars, serviceVars>>

\* handleLineClick with the Delete tool: handleDelete('line', id).
DeleteLine(l, cap) ==
    /\ activeTool = "DELETE"
    /\ CanSave(cap)
    /\ history' = saveHistory
    /\ future' = <<>>
    /\ lines' = linesWithout(lines, lines[l].id)
    /\ selectedLineId' = IF selectedLineId = lines[l].id THEN NoLine ELSE selectedLineId
    /\ UNCHANGED <<stations, activeTool, selectedStationId, activeLineBuilderId,
                   dragState, uuid>>
    /\ UNCHANGED <<routerVars, renderVars, serviceVars>>

\* Mutant of undo: the snapshots already waiting for redo are dropped.
undoDroppingFuture ==
    /\ history # <<>>
    /\ LET previous == history[Len(history)]
       IN  /\ future' = <<Snapshot(stations, lines)>>
           /\ stations' = previous.stations
           /\ lines' = previous.lines
           /\ history' = SubSeq(history, 1, Len(history) - 1)
           /\ selectedStationId' =
                  IF selectedStationId # "null"
                         /\ ~hasStation(previous.stations, selectedStationId)
                  THEN "null" ELSE selectedStationId
           /\ selectedLineId' =
                  IF selectedLineId # NoLine /\ ~hasLine(previous.lines, selectedLineId)
                  THEN NoLine ELSE selectedLineId
    /\ UNCHANGED <<activeTool, activeLineBuilderId, dragState, uuid>>
    /\ UNCHANGED <<routerVars, renderVars, serviceVars>>

undo ==
    /\ history # <<>>
    /\ LET previous == history[Len(history)]
       IN  /\ future' = <<Snapshot(stations, lines)>> \o future
           /\ stations' = previous.stations
           /\ lines' = previous.lines
           /\ history' = SubSeq(history, 1, Len(history) - 1)
           /\ selectedStationId' =
                  IF selectedStationId # "null"
                         /\ ~hasStation(previous.stations, selectedStationId)
                  THEN "null" ELSE selectedStationId
           /\ selectedLineId' =
                  IF selectedLineId # NoLine /\ ~hasLine(previous.lines, selectedLineId)
                  THEN NoLine ELSE selectedLineId
    /\ UNCHANGED <<activeTool, activeLineBuilderId, dragState, uuid>>
    /\ UNCHANGED <<routerVars, renderVars, serviceVars>>

redo ==
    /\ future # <<>>
    /\ history' = Append(history, Snapshot(stations, lines))
    /\ stations' = future[1].stations
    /\ lines' = future[1].lines
    /\ future' = Tail(future)
    /\ UNCHANGED <<activeTool, selectedStationId, selectedLineId,
                   activeLineBuilderId, dragState, uuid>>
    /\ UNCHANGED <<routerVars, renderVars, serviceVars>>

\* The "Finish Line" button, shown while a line is being built.
stopLineBuilding ==
    /\ activeLineBuilderId # NoLine
    /\ activeLineBuilderId' = NoLine
    /\ activeTool' = IF activeTool = "ADD_LINE" THEN "SELECT" ELSE activeTool
    /\ UNCHANGED <<stations, lines, selectedStationId, selectedLineId, history,
                   future, dragState, uuid>>
    /\ UNCHANGED <<routerVars, renderVars, serviceVars>>

\* The "Continue Line" button of the property panel of the selected line.
handleExtendLine(cap) ==
    /\ hasLine(lines, selectedLineId)
    /\ CanSave(cap)
    /\ history' = saveHistory
    /\ future' = <<>>
    /\ activeLineBuilderId' = selectedLineId
    /\ activeTool' = "ADD_LINE"
    /\ UNCHANGED <<stations, lines, selectedStationId, selectedLineId, dragState, uuid>>
    /\ UNCHANGED <<routerVars, renderVars, serviceVars>>

\* The "Closed Loop" checkbox of the selected line: saveHistory on click,
\* handleUpdateLine on change.
ToggleClosedLoop(cap) ==
    /\ hasLine(lines, selectedLineId)
    /\ CanSave(cap)
    /\ history' = saveHistory
    /\ future' = <<>>
    /\ lines' = [i \in DOMAIN lines |->
                    IF lines[i].id = selectedLineId
                    THEN [lines[i] EXCEPT !.closedLoop = ~findLine(lines, selectedLineId).closedLoop]
                    ELSE lines[i]]
    /\ UNCHANGED <<stations, activeTool, selectedStationId, selectedLineId,
                   activeLineBuilderId, dragState, uuid>>
    /\ UNCHANGED <<routerVars, renderVars, serviceVars>>

\* The "Flip Route Angle" checkbox of the selected line.
ToggleAlternateRoute(cap) ==
    /\ hasLine(lines, selectedLineId)
    /\ CanSave(cap)
    /\ history' = saveHistory
    /\ future' = <<>>
    /\ lines' = [i \in DOMAIN lines |->
                    IF lines[i].id = selectedLineId
                    THEN [lines[i] EXCEPT !.alternateRoute = ~findLine(lines, selectedLineId).alternateRoute]
                    ELSE lines[i]]
    /\ UNCHANGED <<stations, activeTool, selectedStationId, selectedLineId,
                   activeLineBuilderId, dragState, uuid>>
    /\ UNCHANGED <<routerVars, renderVars, serviceVars>>

\* Every event of the editor, over sessions of up to MaxSession snapshots.
Next ==
    \/ \E t \in ToolModes : SetTool(t)
    \/ \E q \in EditorPoints : AddStation(q, MaxSession)
    \/ Deselect
    \/ \E s \in DOMAIN stations : PressStation(s, MaxSession)
    \/ \E s \in DOMAIN stations : StartLine(s, MaxSession)
    \/ \E s \in DOMAIN stations : ExtendLine(s, MaxSession)
    \/ \E s \in DOMAIN stations : DeleteStation(s, MaxSession)
    \/ \E q \in EditorPoints : MoveStation(q)
    \/ ReleaseStation
    \/ \E l \in DOMAIN lines : SelectLine(l)
    \/ \E l \in DOMAIN lines : DeleteLine(l, MaxSession)
    \/ undo
    \/ redo
    \/ stopLineBuilding
    \/ handleExtendLine(MaxSession)
    \/ ToggleClosedLoop(MaxSession)
    \/ ToggleAlternateRoute(MaxSession)

Spec == Init /\ [][Next]_vars

\* The edits of the document alone: station additions, line starts and
\* extensions, station and line deletions, undo and redo, with the tool
\* changes and the end of line building that they need, over up to
\* MaxHistory snapshots.
DocumentNext ==
    \/ \E t \in ToolModes : SetTool(t)
    \/ \E q \in EditorPoints : AddStation(q, MaxHistory)
    \/ \E s \in DOMAIN stations : StartLine(s, MaxHistory)
    \/ \E s \in DOMAIN stations : ExtendLine(s, MaxHistory)
    \/ \E s \in DOMAIN stations : DeleteStation(s, MaxHistory)
    \/ \E l \in DOMAIN lines : DeleteLine(l, MaxHistory)
    \/ undo
    \/ redo
    \/ stopLineBuilding

DocumentSpec == Init /\ [][DocumentNext]_vars

\* ----------------------------------------------------------- AI service
\* One call of generateMapLayout(prompt).  The remote model either throws
\* (network or API error), answers without text, answers with text that is
\* not JSON, or answers with JSON text; the parsed JSON holds stations and,
\* possibly, lines whose width and closedLoop fields may be absent.
MOCK_LAYOUT ==
    [stations |-> <<"m1", "m2", "m3", "m4", "m5">>,
     lines |-> <<[id |-> "l1", stationIds |-> <<"m4", "m1", "m3">>, width |-> 6],
                 [id |-> "l2", stationIds |-> <<"m2", "m1", "m5">>, width |-> 6]>>]

\* The lines a JSON answer can hold: width absent, 0 or 4, closedLoop
\* absent, false or true.
AnswerLineShapes ==
    LET base == [id |-> "a", stationIds |-> <<"x", "y">>]
        widths == {0, 4}
    IN  {base}
        \cup {[id |-> "a", stationIds |-> <<"x", "y">>, width |-> w] : w \in widths}
        \cup {[id |-> "a", stationIds |-> <<"x", "y">>, closedLoop |-> c] : c \in BOOLEAN}
        \cup {[id |-> "a", stationIds |-> <<"x", "y">>, width |-> w, closedLoop |-> c] :
                  w \in widths, c \in BOOLEAN}

AnswerLines ==
    UNION {[1..n -> AnswerLineShapes] : n \in 0..MaxAnswerLines}

\* The parsed JSON of an answer: with lines, or without the lines field.
Answers ==
    {[stations |-> sts, lines |-> lns] : sts \in {<<>>, <<"x", "y">>}, lns \in AnswerLines}
    \cup {[stations |-> sts] : sts \in {<<>>, <<"x", "y">>}}

Remotes ==
    {[kind |-> "throws"], [kind |-> "noText"], [kind |-> "badText"]}
    \cup {[kind |-> "text", data |-> a] : a \in Answers}

\* ({ ...l, width: l.width || 6, closedLoop: l.closedLoop || false })
processLine(l) ==
    [id |-> l.id, stationIds |-> l.stationIds,
     width |-> IF "width" \in DOMAIN l /\ l.width # 0 THEN l.width ELSE 6,
     closedLoop |-> IF "closedLoop" \in DOMAIN l THEN l.closedLoop ELSE FALSE]

processedLines(data) == [i \in DOMAIN data.lines |-> processLine(data.lines[i])]

Resolved(layout) == [state |-> "resolved", isNull |-> FALSE, value |-> layout]
ResolvedNull == [state |-> "resolved", isNull |-> TRUE, value |-> NoLayout]

\* The try block after the await: what the promise settles to for the
\* remote's behaviour.  A throw of generateContent, of JSON.parse or of
\* data.lines.map is caught and gives null.
settle(r) ==
    IF r.kind = "text" /\ "lines" \in DOMAIN r.data
    THEN Resolved([stations |-> r.data.stations, lines |-> processedLines(r.data)])
    ELSE ResolvedNull

ServiceInit ==
    /\ EditorIdle
    /\ RouterIdle
    /\ RenderIdle
    /\ apiKey \in {"", "key"}
    /\ remote \in (IF apiKey = "" THEN {[kind |-> "throws"]} ELSE Remotes)
    /\ phase = "idle"
    /\ promise = Pending

\* generateMapLayout is called: without a key it schedules the timer that
\* resolves the mock layout, with a key it awaits generateContent.
generateMapLayout ==
    /\ phase = "idle"
    /\ phase' = IF apiKey = "" THEN "timer" ELSE "awaiting"
    /\ UNCHANGED <<apiKey, remote, promise>>
    /\ UNCHANGED <<editorVars, routerVars, renderVars>>

\* setTimeout(() => resolve(MOCK_LAYOUT), 1500) fires.
TimerFires ==
    /\ phase = "timer"
    /\ phase' = "settled"
    /\ promise' = Resolved(MOCK_LAYOUT)
    /\ UNCHANGED <<apiKey, remote>>
    /\ UNCHANGED <<editorVars, routerVars, renderVars>>

\* The awaited generateContent settles and the rest of the try block runs.
RemoteSettles ==
    /\ phase = "awaiting"
    /\ phase' = "settled"
    /\ promise' = settle(remote)
    /\ UNCHANGED <<apiKey, remote>>
    /\ UNCHANGED <<editorVars, routerVars, renderVars>>

ServiceNext ==
    \/ generateMapLayout
    \/ TimerFires
    \/ RemoteSettles

ServiceSpec == ServiceInit /\ [][ServiceNext]_vars

\* ------------------------------------------------------- router claims
NonAlignedPair(q1, q2) ==
    /\ Abs(q2.x - q1.x) >= 1
    /\ Abs(q2.y - q1.y) >= 1
    /\ Abs(Abs(q2.x - q1.x) - Abs(q2.y - q1.y)) >= 1

\* The sub-segment u-v is horizontal, vertical or exactly 45 degrees.
Octolinear(u, v) ==
    \/ u.y = v.y
    \/ u.x = v.x
    \/ Abs(v.x - u.x) = Abs(v.y - u.y)

\* Total length of a point list of octolinear sub-segments, as a + b*sqrt(2).
RECURSIVE PathLength(_)
PathLength(pts) ==
    IF Len(pts) < 2 THEN [a |-> 0, b |-> 0]
    ELSE LenAdd(HypotOcto(pts[2].x - pts[1].x, pts[2].y - pts[1].y),
                PathLength(Tail(pts)))

\* C1: for a non-aligned pair and either flag the router returns exactly
\* three points [p1, elbow, p2] whose two sub-segments are each horizontal,
\* vertical or 45 degrees (the direct-segment fallback is never taken).
C1_ElbowIsOctolinear ==
    (segment # <<>> /\ NonAlignedPair(p1, p2)) =>
        /\ Len(segment) = 3
        /\ segment[1] = p1
        /\ segment[3] = p2
        /\ Octolinear(segment[1], segment[2])
        /\ Octolinear(segment[2], segment[3])

C1_Witness ==
    /\ segment # <<>>
    /\ NonAlignedPair(p1, p2)
    /\ Len(segment) = 3
    /\ segment[2] \notin {p1, p2}

\* C2: for a pair aligned horizontally, vertically or at exactly 45 degrees
\* (p1 = p2 included) and either flag the router returns [p1, p2], no elbow.
C2_AlignedHasNoElbow ==
    (segment # <<>> /\ Octolinear(p1, p2)) => segment = <<p1, p2>>

C2_Witness ==
    /\ segment = <<p1, p2>>
    /\ p1 # p2
    /\ Abs(p2.x - p1.x) = Abs(p2.y - p1.y)
    /\ alternate

\* C3: for a non-aligned pair the routes for alternate = false and
\* alternate = true have the same endpoints and the same total length
\* (within the tolerance 1) but different elbow points.
C3_AlternateFlipsElbow ==
    (segment # <<>> /\ NonAlignedPair(p1, p2)) =>
        LET other == getOctolinearSegment(p1, p2, ~alternate)
        IN  /\ Len(segment) = 3
            /\ Len(other) = 3
            /\ other[1] = segment[1]
            /\ other[3] = segment[3]
            /\ LenWithinOne(PathLength(segment), PathLength(other))
            /\ other[2] # segment[2]

C3_Witness ==
    /\ segment # <<>>
    /\ NonAlignedPair(p1, p2)
    /\ alternate
    /\ Len(segment) = 3
    /\ segment[2] # getOctolinearSegment(p1, p2, FALSE)[2]

\* A point list in reverse order.
Reversed(pts) == [i \in DOMAIN pts |-> pts[Len(pts) + 1 - i]]

\* C26: for a non-aligned pair and either flag, the route of the reversed
\* hop with the opposite flag is the route of the hop in reverse order:
\* getOctolinearSegment(p2, p1, NOT alt) = reverse of
\* getOctolinearSegment(p1, p2, alt); so the reversed hop with the same flag
\* has a different elbow.
C26_ReverseFlipsAlternate ==
    (segment # <<>> /\ NonAlignedPair(p1, p2)) =>
        /\ getOctolinearSegment(p2, p1, ~alternate) = Reversed(segment)
        /\ getOctolinearSegment(p2, p1, alternate)[2] # segment[2]

\* A non-aligned hop routed with the flag set, whose elbow is the elbow of
\* the reversed hop routed with the flag clear.
C26_Witness ==
    /\ segment # <<>>
    /\ NonAlignedPair(p1, p2)
    /\ alternate
    /\ Len(segment) = 3
    /\ segment[2] \notin {p1, p2}
    /\ getOctolinearSegment(p2, p1, FALSE)[2] = segment[2]

\* ------------------------------------------------------- layout claims
\* The consecutive point pairs of a rendered line's raw centerline.
RawSegments(i) ==
    {<<linePaths[i].rawPoints[j], linePaths[i].rawPoints[j + 1]>> :
        j \in 1..(Len(linePaths[i].rawPoints) - 1)}

AllRawSegments == UNION {RawSegments(i) : i \in DOMAIN lines}

RECURSIVE QSum(_)
QSum(s) == IF s = <<>> THEN QInt(0) ELSE QAdd(Head(s), QSum(Tail(s)))

\* The offsets getLineOffset returns on the segment u-v for the lines of its
\* registry entry, by rank.
BundleOffsets(u, v) ==
    LET list == registry[segmentKey(u, v)]
    IN  [r \in 1..Len(list) |-> getLineOffset(registry, u, v, list[r])]

\* C4: the n offsets of the n lines of a registry entry sum to zero, are
\* pairwise distinct, and consecutive ranks differ by exactly LINE_SPACING
\* (n = 2 gives -3.5 and +3.5, n = 3 gives -7, 0, +7).
C4_BundleOffsetsCentered ==
    rendered =>
        /\ \A key \in DOMAIN registry :
               \E seg \in AllRawSegments : segmentKey(seg[1], seg[2]) = key
        /\ \A seg \in AllRawSegments :
               segmentKey(seg[1], seg[2]) \in DOMAIN registry =>
                   LET offs == BundleOffsets(seg[1], seg[2])
                       n == Len(offs)
                   IN  /\ QSum(offs) = QInt(0)
                       /\ \A r \in 1..(n - 1) :
                              QSub(offs[r + 1], offs[r]) = QInt(LINE_SPACING)
                       /\ \A r, t \in 1..n : offs[r] = offs[t] => r = t
                       /\ n = 2 => offs = <<Q(-7, 0, 2), Q(7, 0, 2)>>
                       /\ n = 3 => offs = <<QInt(-7), QInt(0), QInt(7)>>

C4_Witness ==
    /\ rendered
    /\ \E seg \in AllRawSegments :
           /\ segmentKey(seg[1], seg[2]) \in DOMAIN registry
           /\ BundleOffsets(seg[1], seg[2]) = <<QInt(-7), QInt(0), QInt(7)>>

\* The lateral displacement with which line i is drawn on its raw
\* sub-segment u-v: the normal of its travel direction times its offset.
DrawnShift(i, u, v) ==
    LET n == getNormal(getDir(u, v))
        off == getLineOffset(registry, u, v, lines[i].id)
    IN  QPoint(QMul(n.x, off), QMul(n.y, off))

RankOf(i, u, v) == indexOf(registry[segmentKey(u, v)], lines[i].id)

\* C5: two distinct lines that contain the same geometric segment are drawn
\* on it at distinct positions, LINE_SPACING times their rank difference
\* apart, whichever direction each traverses the segment in.
C5_SharedSegmentDrawnApart ==
    rendered =>
        \A i, j \in DOMAIN lines :
            \A si \in RawSegments(i), sj \in RawSegments(j) :
                (/\ lines[i].id # lines[j].id
                 /\ segmentKey(si[1], si[2]) = segmentKey(sj[1], sj[2])
                 /\ segmentKey(si[1], si[2]) \in DOMAIN registry) =>
                    LET di == DrawnShift(i, si[1], si[2])
                        dj == DrawnShift(j, sj[1], sj[2])
                        dr == RankOf(i, si[1], si[2]) - RankOf(j, sj[1], sj[2])
                    IN  /\ di # dj
                        /\ QDist2(di, dj) = QInt(LINE_SPACING * LINE_SPACING * dr * dr)

Reordered(s, f) == [i \in DOMAIN s |-> s[f[i]]]

Reorderings(n) == {f \in [1..n -> 1..n] : \A i, j \in 1..n : f[i] = f[j] => i = j}

\* C6: for any permutation of the lines array the registry is the same, key
\* by key, and every list is ascending by id.
C6_RegistryOrderIndependent ==
    rendered =>
        /\ \A f \in Reorderings(Len(lines)) :
               segmentRegistry(stations, Reordered(lines, f)) = registry
        /\ \A key \in DOMAIN registry :
               \A r \in 1..(Len(registry[key]) - 1) :
                   registry[key][r] < registry[key][r + 1]

C6_Witness ==
    /\ rendered
    /\ Len(lines) >= 2
    /\ lines[1].id > lines[2].id
    /\ \E key \in DOMAIN registry :
           /\ Len(registry[key]) >= 2
           /\ registry[key][1] = lines[2].id

\* C9: a closed loop over k >= 2 resolvable stations routes exactly k hops,
\* the k - 1 consecutive pairs and then the wrap-around hop from the k-th
\* station to the first, and the offset point sequence handed to
\* generateSmoothPath starts and ends at the same point.
C9_ClosedLoopRoutesAllHops ==
    rendered =>
        \A i \in DOMAIN lines :
            LET coords == resolveStations(stations, lines[i].stationIds)
                k == Len(coords)
                path == linePaths[i]
            IN  (lines[i].closedLoop /\ k >= 2) =>
                    /\ Len(path.hops) = k
                    /\ \A j \in 1..(k - 1) : path.hops[j] = <<coords[j], coords[j + 1]>>
                    /\ path.hops[k] = <<coords[k], coords[1]>>
                    /\ Len(path.offsetPoints) >= 2
                    /\ path.offsetPoints[1] = path.offsetPoints[Len(path.offsetPoints)]
                    /\ path.d # <<>>

C9_Witness ==
    /\ rendered
    /\ \E i \in DOMAIN lines :
           /\ lines[i].closedLoop
           /\ Len(linePaths[i].hops) = 3
           /\ linePaths[i].hops[3][1] # linePaths[i].hops[3][2]
           /\ Len(linePaths[i].offsetPoints) >= 4


\* The lines (by array position) whose stationIds contain the id.
PassingLines(id) ==
    {i \in DOMAIN lines : \E j \in DOMAIN lines[i].stationIds : lines[i].stationIds[j] = id}

\* The position of the first occurrence of the id on the line.
FirstPosition(line, id) ==
    CHOOSE j \in DOMAIN line.stationIds :
        /\ line.stationIds[j] = id
        /\ \A t \in 1..(j - 1) : line.stationIds[t] # id

\* The ids of the stations before and after the id on the line, with the
\* wrap-around neighbour on a closed loop; the empty set where there is none.
PrevIds(line, id) ==
    LET pos == FirstPosition(line, id)
    IN  IF pos > 1 THEN {line.stationIds[pos - 1]}
        ELSE IF line.closedLoop THEN {line.stationIds[Len(line.stationIds)]}
        ELSE {}

NextIds(line, id) ==
    LET pos == FirstPosition(line, id)
    IN  IF pos < Len(line.stationIds) THEN {line.stationIds[pos + 1]}
        ELSE IF line.closedLoop THEN {line.stationIds[1]}
        ELSE {}

StationsWithId(ids) == {s \in DOMAIN stations : stations[s].id \in ids}

StationPoint(ids) ==
    LET s == CHOOSE s \in StationsWithId(ids) : TRUE
    IN  Pt(stations[s].x, stations[s].y)

\* Both a previous and a next routed point exist for the station on the line.
HasBothNeighbours(line, id) ==
    /\ StationsWithId(PrevIds(line, id)) # {}
    /\ StationsWithId(NextIds(line, id)) # {}

\* Direction of arrival at the station along the routed hop from the
\* previous station, and of departure along the routed hop to the next.
InDirection(line, st) ==
    LET here == Pt(st.x, st.y)
        seg == getOctolinearSegment(StationPoint(PrevIds(line, st.id)), here,
                                    line.alternateRoute)
    IN  getDir(seg[Len(seg) - 1], here)

OutDirection(line, st) ==
    LET here == Pt(st.x, st.y)
        seg == getOctolinearSegment(here, StationPoint(NextIds(line, st.id)),
                                    line.alternateRoute)
    IN  getDir(here, seg[2])

AtLeast99Percent(dot) == ~QLess(dot, Q(99, 0, 100))

Min(S) == CHOOSE m \in S : \A t \in S : m <= t

PillCondition(st) ==
    LET passing == PassingLines(st.id)
    IN  /\ Cardinality(passing) >= 2
        /\ \A i \in passing :
               /\ HasBothNeighbours(lines[i], st.id)
               /\ AtLeast99Percent(Dot(InDirection(lines[i], st),
                                       OutDirection(lines[i], st)))
        /\ \A i \in passing :
               AtLeast99Percent(Dot(OutDirection(lines[i], st),
                                    OutDirection(lines[Min(passing)], st)))

\* C10: getStationShape returns a pill exactly when at least two lines
\* contain the station and every one of them has a previous and a next
\* routed point (wrapping around on a closed loop), passes straight through
\* (in . out >= 0.99) and leaves in the direction of the first of them
\* (out . out1 >= 0.99); otherwise it returns standard with angle 0.
C10_PillIffStraightBundle ==
    rendered =>
        \A s \in DOMAIN stations :
            /\ stationShapes[s].type = "pill" <=> PillCondition(stations[s])
            /\ stationShapes[s].type # "pill" =>
                   /\ stationShapes[s].type = "standard"
                   /\ stationShapes[s].angle = 0

C10_Witness ==
    /\ rendered
    /\ \E s \in DOMAIN stations :
           /\ stationShapes[s].type = "pill"
           /\ \E i \in PassingLines(stations[s].id) : lines[i].closedLoop
    /\ \E s \in DOMAIN stations :
           /\ stationShapes[s].type = "standard"
           /\ stationShapes[s].count >= 2
           /\ \A i \in PassingLines(stations[s].id) :
                  HasBothNeighbours(lines[i], stations[s].id)

\* The station id is the first or the last entry of an open line.
IsOpenEnd(line, id) ==
    /\ ~line.closedLoop
    /\ line.stationIds # <<>>
    /\ \/ line.stationIds[1] = id
       \/ line.stationIds[Len(line.stationIds)] = id

\* C11: a station that is the first or the last entry of the stationIds of
\* some open line is never classified as a pill, whatever other lines pass
\* through it and even when it also occurs at another position of that line.
C11_OpenEndNeverPill ==
    rendered =>
        \A s \in DOMAIN stations :
            (\E i \in DOMAIN lines : IsOpenEnd(lines[i], stations[s].id)) =>
                stationShapes[s].type # "pill"

\* The positions at which the id occurs on the line.
Occurrences(line, id) == {j \in DOMAIN line.stationIds : line.stationIds[j] = id}

\* The ids before and after position j of the line, wrapping on a closed loop.
PrevIdAt(line, j) ==
    IF j > 1 THEN {line.stationIds[j - 1]}
    ELSE IF line.closedLoop THEN {line.stationIds[Len(line.stationIds)]}
    ELSE {}

NextIdAt(line, j) ==
    IF j < Len(line.stationIds) THEN {line.stationIds[j + 1]}
    ELSE IF line.closedLoop THEN {line.stationIds[1]}
    ELSE {}

\* The eight unit directions of octolinear sub-segments.
OctoDirections ==
    {getDir(Pt(0, 0), Pt(a, b)) : a \in -1..1, b \in -1..1} \ {getDir(Pt(0, 0), Pt(0, 0))}

\* At position j the line arrives at the station and leaves it in direction d.
FlowsThrough(line, st, j, d) ==
    /\ StationsWithId(PrevIdAt(line, j)) # {}
    /\ StationsWithId(NextIdAt(line, j)) # {}
    /\ LET here == Pt(st.x, st.y)
           arrive == getOctolinearSegment(StationPoint(PrevIdAt(line, j)), here,
                                          line.alternateRoute)
           leave == getOctolinearSegment(here, StationPoint(NextIdAt(line, j)),
                                         line.alternateRoute)
       IN  /\ getDir(arrive[Len(arrive) - 1], here) = d
           /\ getDir(here, leave[2]) = d

\* Exactly two lines contain the station and both run through it in
\* direction d at every position where they hold it.
TwoLinesFlow(st, d) ==
    /\ Cardinality(PassingLines(st.id)) = 2
    /\ \A i \in PassingLines(st.id) :
           \A j \in Occurrences(lines[i], st.id) : FlowsThrough(lines[i], st, j, d)

\* Math.atan2 in degrees of the normal (-dy, dx) of the unit direction d.
NormalAngle(d) ==
    LET dx == QSign(d.x)
        dy == QSign(d.y)
    IN  CASE dx = 1 /\ dy = 0 -> 90
          [] dx = 1 /\ dy = 1 -> 135
          [] dx = 0 /\ dy = 1 -> 180
          [] dx = -1 /\ dy = 1 -> -135
          [] dx = -1 /\ dy = 0 -> -90
          [] dx = -1 /\ dy = -1 -> -45
          [] dx = 0 /\ dy = -1 -> 0
          [] dx = 1 /\ dy = -1 -> 45

ResolvedPositions(line) ==
    {j \in DOMAIN line.stationIds :
        \E s \in DOMAIN stations : stations[s].id = line.stationIds[j]}

\* The lines array without its i-th line.
LinesExcept(i) == SelectSeq([j \in DOMAIN lines |-> <<j, lines[j]>>],
                            LAMBDA e : e[1] # i)

LinesWithoutIndex(i) == [j \in DOMAIN LinesExcept(i) |-> LinesExcept(i)[j][2]]

\* C13: a line with fewer than 2 station ids that resolve to a known station
\* (none, one, or only dangling ids), closed loop or not, gets the empty
\* path from getLinePath and adds no entry to the segment registry.
C13_DegenerateLineDrawsNothing ==
    rendered =>
        \A i \in DOMAIN lines :
            Cardinality(ResolvedPositions(lines[i])) < 2 =>
                /\ linePaths[i].d = <<>>
                /\ \A key \in DOMAIN registry :
                       \A r \in DOMAIN registry[key] : registry[key][r] # lines[i].id
                /\ segmentRegistry(stations, LinesWithoutIndex(i)) = registry

C13_Witness ==
    /\ rendered
    /\ Len(lines) = 2
    /\ lines[1].closedLoop
    /\ Len(lines[1].stationIds) = 3
    /\ Cardinality(ResolvedPositions(lines[1])) = 1
    /\ linePaths[1].d = <<>>
    /\ lines[2].closedLoop
    /\ Len(lines[2].stationIds) = 1
    /\ DOMAIN registry = {}

\* The line with the ids that name no known station removed.
WithoutDangling(line) ==
    [line EXCEPT !.stationIds =
        SelectSeq(line.stationIds,
                  LAMBDA id : \E s \in DOMAIN stations : stations[s].id = id)]

\* C14: ids of a line's stationIds that name no known station are skipped:
\* the registry and the line's path are those obtained for the same line
\* with the dangling ids removed from stationIds.
C14_DanglingIdsSkipped ==
    rendered =>
        \A i \in DOMAIN lines :
            /\ segmentRegistry(stations,
                               [lines EXCEPT ![i] = WithoutDangling(lines[i])])
                   = registry
            /\ getLinePath(stations, registry, WithoutDangling(lines[i]))
                   = linePaths[i]

C14_Witness ==
    /\ rendered
    /\ \E i \in DOMAIN lines :
           /\ Len(lines[i].stationIds) = 3
           /\ ResolvedPositions(lines[i]) = {1, 3}
           /\ lines[i].stationIds[1] # lines[i].stationIds[3]
           /\ linePaths[i].d # <<>>
           /\ \E key \in DOMAIN registry : registry[key] = <<lines[i].id>>

\* The lines (by array position) whose raw centerline runs over the segment
\* with the given key, in either direction.
LinesOver(key) ==
    {i \in DOMAIN lines :
        \E seg \in RawSegments(i) : segmentKey(seg[1], seg[2]) = key}

\* How many sub-segments of line i's raw centerline have the given key.
Traversals(i, key) ==
    Cardinality({j \in 1..(Len(linePaths[i].rawPoints) - 1) :
                    segmentKey(linePaths[i].rawPoints[j],
                               linePaths[i].rawPoints[j + 1]) = key})

\* C15: no registry entry lists the same line id more than once, also when
\* a line runs over the same geometric segment several times; the bundle
\* size of a segment is the number of distinct lines that run over it.
C15_RegistryListsLineOnce ==
    rendered =>
        \A key \in DOMAIN registry :
            /\ \A r, t \in DOMAIN registry[key] :
                   registry[key][r] = registry[key][t] => r = t
            /\ Len(registry[key]) = Cardinality({lines[i].id : i \in LinesOver(key)})

C15_Witness ==
    /\ rendered
    /\ \E key \in DOMAIN registry :
           \E i, j \in DOMAIN lines :
               /\ Traversals(i, key) >= 2
               /\ ~lines[i].closedLoop
               /\ Traversals(j, key) >= 2
               /\ lines[j].closedLoop /\ Len(lines[j].stationIds) = 2
               /\ Len(registry[key]) = 2

QLeq(x, y) == ~QLess(y, x)

\* r2 is the square of min(16, half of length in, half of length out), given
\* the squares in2 and out2 of the two lengths.
IsClampedRadius2(r2, in2, out2) ==
    /\ QLeq(r2, QInt(256))
    /\ QLeq(QMul(QInt(4), r2), in2)
    /\ QLeq(QMul(QInt(4), r2), out2)
    /\ \/ r2 = QInt(256)
       \/ QMul(QInt(4), r2) = in2
       \/ QMul(QInt(4), r2) = out2

\* The square of the radius of the path command c (0 for a plain line-to).
Radius2(c) == IF c.op = "LQ" THEN c.r2 ELSE QInt(0)

\* sqrt(a2) <= sqrt(len2) / 2 and sqrt(b2) <= sqrt(len2) / 2, so that
\* sqrt(a2) + sqrt(b2) <= sqrt(len2).
RootsFitIn(a2, b2, len2) ==
    /\ QLeq(QMul(QInt(4), a2), len2)
    /\ QLeq(QMul(QInt(4), b2), len2)

\* C16: at every interior vertex of the offset points the radius is
\* min(cornerRadius, half the incoming length, half the outgoing length);
\* a vertex whose radius is below 1 is a plain line-to; and on the
\* sub-segment shared by two consecutive corners each of the two radii is
\* at most half its length, so the curve end of the first corner does not
\* pass the curve start of the second.
C16_CornerRadiusClamped ==
    rendered =>
        \A i \in DOMAIN lines :
            LET pts == linePaths[i].offsetPoints
                d == linePaths[i].d
            IN  Len(pts) >= 2 =>
                    /\ Len(d) = Len(pts)
                    /\ \A k \in 2..(Len(pts) - 1) :
                           /\ d[k].p = pts[k]
                           /\ \E r2 \in {cornerRadius2(pts[k - 1], pts[k], pts[k + 1], 16)} :
                                  /\ IsClampedRadius2(r2, QDist2(pts[k - 1], pts[k]),
                                                      QDist2(pts[k], pts[k + 1]))
                                  /\ d[k].op = "L" <=> QLess(r2, QInt(1))
                                  /\ d[k].op = "LQ" <=> ~QLess(r2, QInt(1))
                                  /\ d[k].op = "LQ" => d[k].r2 = r2
                    /\ \A k \in 2..(Len(pts) - 2) :
                           RootsFitIn(Radius2(d[k]), Radius2(d[k + 1]),
                                      QDist2(pts[k], pts[k + 1]))

C16_Witness ==
    /\ rendered
    /\ \E i \in DOMAIN lines :
           \E k \in 2..(Len(linePaths[i].d) - 2) :
               /\ linePaths[i].d[k].op = "LQ"
               /\ linePaths[i].d[k + 1].op = "LQ"
               /\ linePaths[i].d[k].r2 # linePaths[i].d[k + 1].r2
    /\ \E i \in DOMAIN lines :
           \E k \in 2..(Len(linePaths[i].d) - 1) : linePaths[i].d[k].op = "L"

\* A number of Q(sqrt 2) that is the result of no division by zero.
IsFinite(x) == x.d > 0

RightAngles == {-135, -90, -45, 0, 45, 90, 135, 180}

\* The routed points of the hop h: two or three points from h[1] to h[2].
HopIsRouted(h, alt) ==
    LET seg == getOctolinearSegment(h[1], h[2], alt)
    IN  /\ Len(seg) \in {2, 3}
        /\ seg[1] = h[1]
        /\ seg[Len(seg)] = h[2]

\* C17: routing, the registry, the offsets, the paths and the station shapes
\* are total.  For every document (dangling ids, coincident stations, a
\* station repeated within a line, closed loops over one or two stations,
\* no line, no station) every hop is routed to 2 or 3 points, every raw
\* centerline that is read at a neighbouring index is long enough for the
\* read, every vertex gets one offset point with finite coordinates, every
\* offset is finite, a curve is emitted only between sub-segments of
\* non-zero length (the lengths it divides by), and every station gets a
\* shape record.
C17_LayoutTotal ==
    rendered =>
        /\ DOMAIN linePaths = DOMAIN lines
        /\ DOMAIN stationShapes = DOMAIN stations
        /\ \A i \in DOMAIN lines :
               LET path == linePaths[i]
               IN  IF Cardinality(ResolvedPositions(lines[i])) < 2
                   THEN path.d = <<>>
                   ELSE /\ \A h \in DOMAIN path.hops :
                               HopIsRouted(path.hops[h], lines[i].alternateRoute)
                        /\ Len(path.rawPoints) >= (IF lines[i].closedLoop THEN 3 ELSE 2)
                        /\ Len(path.offsetPoints) = Len(path.rawPoints)
                        /\ \A k \in DOMAIN path.offsetPoints :
                               /\ IsFinite(path.offsetPoints[k].x)
                               /\ IsFinite(path.offsetPoints[k].y)
                        /\ \A seg \in RawSegments(i) :
                               IsFinite(getLineOffset(registry, seg[1], seg[2], lines[i].id))
                        /\ Len(path.d) = Len(path.offsetPoints)
                        /\ \A k \in 2..(Len(path.d) - 1) :
                               path.d[k].op = "LQ" =>
                                   /\ QDist2(path.offsetPoints[k - 1],
                                             path.offsetPoints[k]) # QInt(0)
                                   /\ QDist2(path.offsetPoints[k],
                                             path.offsetPoints[k + 1]) # QInt(0)
        /\ \A s \in DOMAIN stations :
               /\ stationShapes[s].type \in {"standard", "pill"}
               /\ stationShapes[s].count >= 1
               /\ stationShapes[s].angle \in RightAngles

\* Two coincident stations joined by a closed loop, next to a line that
\* returns to a station it has already passed.
C17_Witness ==
    /\ rendered
    /\ \E i, j \in DOMAIN lines :
           /\ lines[i].closedLoop
           /\ Len(linePaths[i].hops) = 2
           /\ linePaths[i].hops[1][1] = linePaths[i].hops[1][2]
           /\ linePaths[i].d # <<>>
           /\ Len(lines[j].stationIds) = 3
           /\ lines[j].stationIds[1] = lines[j].stationIds[3]
           /\ linePaths[j].d # <<>>

\* The position in the raw centerline of a closed loop of the wrap-around
\* vertex: the end of the closing hop, at the first station.
WrapVertex(i) == Len(linePaths[i].rawPoints) - 1

\* C20: for a closed loop the offset point of the first vertex is the
\* corner between the last sub-segment of the wrap-around hop (incoming)
\* and the first sub-segment of the first hop (outgoing); it equals the
\* offset point of the wrap-around vertex at the same station, also when
\* the line's offsets on those sub-segments are not zero.
C20_ClosedLoopFirstVertex ==
    rendered =>
        \A i \in DOMAIN lines :
            (lines[i].closedLoop /\ linePaths[i].d # <<>>) =>
                LET raw == linePaths[i].rawPoints
                    w == WrapVertex(i)
                IN  /\ raw[w] = raw[1]
                    /\ linePaths[i].offsetPoints[1] =
                           cornerVertex(registry, raw[w - 1], raw[1], raw[2], lines[i].id)
                    /\ linePaths[i].offsetPoints[1] = linePaths[i].offsetPoints[w]

\* The two points are at least 1 apart (Math.hypot >= 1, compared squared).
AtLeastOneApart(u, v) ==
    (u.x - v.x) * (u.x - v.x) + (u.y - v.y) * (u.y - v.y) >= 1

\* C27: the registry and the path composer agree: for every line with at
\* least two resolvable stations and every pair of consecutive vertices of
\* its raw centerline (the closing hop of a closed loop included) that are
\* at least 1 apart, the registry has an entry under the pair's key and
\* the entry lists the line's id, so getLineOffset finds the line there.
C27_RegistryCoversCenterline ==
    rendered =>
        \A i \in DOMAIN lines :
            Len(resolveStations(stations, lines[i].stationIds)) >= 2 =>
                \A pr \in RawSegments(i) :
                    AtLeastOneApart(pr[1], pr[2]) =>
                        /\ segmentKey(pr[1], pr[2]) \in DOMAIN registry
                        /\ includes(registry[segmentKey(pr[1], pr[2])], lines[i].id)

\* A closed loop over three stations whose closing hop has an elbow, drawn
\* with a second line: the centerline has the elbow's two sub-segments and
\* one of the loop's sub-segments is shared.
C27_Witness ==
    /\ rendered
    /\ \E i \in DOMAIN lines :
           /\ lines[i].closedLoop
           /\ Len(linePaths[i].hops) = 3
           /\ Len(getOctolinearSegment(linePaths[i].hops[3][1],
                                       linePaths[i].hops[3][2],
                                       lines[i].alternateRoute)) = 3
           /\ \E pr \in RawSegments(i) :
                  /\ AtLeastOneApart(pr[1], pr[2])
                  /\ Len(registry[segmentKey(pr[1], pr[2])]) = 2

\* Every registry entry that lists the line lists it alone.
SharesNoSegment(i) ==
    \A k \in DOMAIN registry :
        includes(registry[k], lines[i].id) => Len(registry[k]) = 1

\* C30: for a drawn line, open or closed, none of whose sub-segments is
\* shared with another line, every offset point computed by getLinePath is
\* the raw centerline vertex it belongs to (for a closed loop the closing
\* point repeats the first), so the path passes exactly through the line's
\* station coordinates and elbow points.
C30_UnsharedLineOnCenterline ==
    rendered =>
        \A i \in DOMAIN lines :
            (linePaths[i].d # <<>> /\ SharesNoSegment(i)) =>
                LET raw == linePaths[i].rawPoints
                    off == linePaths[i].offsetPoints
                    last == IF lines[i].closedLoop THEN Len(raw) - 1 ELSE Len(raw)
                IN  /\ Len(off) = Len(raw)
                    /\ \A j \in 1..last : off[j] = QPt(raw[j])
                    /\ lines[i].closedLoop => off[Len(off)] = QPt(raw[1])

\* A closed loop with an elbow that shares nothing, drawn next to a second
\* drawn line.
C30_Witness ==
    /\ rendered
    /\ \E i, j \in DOMAIN lines :
           /\ i # j
           /\ lines[i].closedLoop
           /\ SharesNoSegment(i)
           /\ Len(linePaths[i].rawPoints) >= 6
           /\ linePaths[i].d # <<>>
           /\ linePaths[j].d # <<>>

\* ------------------------------------------------------- editor claims
\* C7: handleDelete('station', id) removes the station, removes id from
\* every line's stationIds keeping the order of the remaining ids, removes
\* every line left with no station and keeps a line left with exactly one;
\* getLinePath returns the empty path for such a one-station line.
C7_DeleteStationCascades ==
    [][\A s \in DOMAIN stations :
           DeleteStation(s, MaxHistory) =>
               LET id == stations[s].id
                   NotId(x) == x # id
                   Other(st) == st.id # id
                   Remaining(l) == SelectSeq(l.stationIds, NotId)
                   Survives(l) == Remaining(l) # <<>>
                   survivors == SelectSeq(lines, Survives)
               IN  /\ stations' = SelectSeq(stations, Other)
                   /\ Len(lines') = Len(survivors)
                   /\ \A i \in DOMAIN survivors :
                          /\ lines'[i].id = survivors[i].id
                          /\ lines'[i].stationIds = Remaining(survivors[i])
                          /\ lines'[i].closedLoop = survivors[i].closedLoop
                          /\ lines'[i].alternateRoute = survivors[i].alternateRoute
                   /\ \A i \in DOMAIN lines :
                          Len(Remaining(lines[i])) = 1 => hasLine(lines', lines[i].id)
                   /\ \A i \in DOMAIN lines' :
                          Len(lines'[i].stationIds) = 1 =>
                              getLinePath(stations',
                                          segmentRegistry(stations', lines'),
                                          lines'[i]).d = <<>>]_vars

\* A station has just been deleted: it is in the snapshot saved before the
\* delete and not in the document, a line that held it and one more station
\* is left with one station, and a line that held only it is gone.
C7_Witness ==
    /\ history # <<>>
    /\ LET prev == history[Len(history)]
       IN  \E x \in DOMAIN prev.stations :
               /\ ~hasStation(stations, prev.stations[x].id)
               /\ Len(stations) = Len(prev.stations) - 1
               /\ \E a, b \in DOMAIN prev.lines :
                      /\ Len(prev.lines[a].stationIds) = 2
                      /\ includes(prev.lines[a].stationIds, prev.stations[x].id)
                      /\ hasLine(lines, prev.lines[a].id)
                      /\ Len(findLine(lines, prev.lines[a].id).stationIds) = 1
                      /\ prev.lines[b].stationIds = <<prev.stations[x].id>>
                      /\ ~hasLine(lines, prev.lines[b].id)

\* Every line but the one with the given id is the same before and after
\* the step, and no line is added or removed.
OtherLinesKept(id) ==
    /\ Len(lines') = Len(lines)
    /\ \A i \in DOMAIN lines : lines[i].id # id => lines'[i] = lines[i]

\* C18: handleLineAdd(stationId) with no active line builder adds a new line
\* whose stationIds is exactly [stationId] and makes it the active builder;
\* with an active builder it appends stationId to that line's stationIds,
\* unless stationId is its last id, in which case the line is unchanged; so
\* the line holds the clicks with adjacent repeats collapsed, and no other
\* line is changed.
C18_LineAddAppendsClick ==
    [][\A s \in DOMAIN stations :
           /\ StartLine(s, MaxHistory) =>
                  /\ Len(lines') = Len(lines) + 1
                  /\ \A i \in DOMAIN lines : lines'[i] = lines[i]
                  /\ lines'[Len(lines')].stationIds = <<stations[s].id>>
                  /\ \A i \in DOMAIN lines : lines[i].id # lines'[Len(lines')].id
                  /\ activeLineBuilderId' = lines'[Len(lines')].id
           /\ ExtendLine(s, MaxHistory) =>
                  /\ OtherLinesKept(activeLineBuilderId)
                  /\ activeLineBuilderId' = activeLineBuilderId
                  /\ \A i \in DOMAIN lines :
                         lines[i].id = activeLineBuilderId =>
                             LET old == lines[i].stationIds
                             IN  /\ lines'[i].id = lines[i].id
                                 /\ lines'[i].closedLoop = lines[i].closedLoop
                                 /\ lines'[i].alternateRoute = lines[i].alternateRoute
                                 /\ old[Len(old)] = stations[s].id =>
                                        lines'[i].stationIds = old
                                 /\ old[Len(old)] # stations[s].id =>
                                        lines'[i].stationIds = old \o <<stations[s].id>>]_vars

\* The line being built holds two stations after three clicks, the last of
\* which repeated the second: the snapshot saved by the third click equals
\* the document, and the one before it shows the line with one station.
C18_Witness ==
    /\ activeLineBuilderId # NoLine
    /\ hasLine(lines, activeLineBuilderId)
    /\ Len(findLine(lines, activeLineBuilderId).stationIds) = 2
    /\ Len(history) >= 2
    /\ history[Len(history)] = Snapshot(stations, lines)
    /\ LET before == history[Len(history) - 1]
       IN  /\ hasLine(before.lines, activeLineBuilderId)
           /\ Len(findLine(before.lines, activeLineBuilderId).stationIds) = 1
           /\ Len(before.lines) = 2

\* C8: in every editor state reached by station additions, line starts and
\* extensions, station and line deletions, undo and redo, no line's
\* stationIds holds the same station id at two adjacent positions.
C8_NoAdjacentDuplicate ==
    \A i \in DOMAIN lines : NoAdjacentRepeat(lines[i].stationIds)

\* C21: in every editor state reached by station additions, line starts and
\* extensions, station and line deletions, undo and redo, every id in every
\* line's stationIds is the id of a station of the document, and no line
\* has an empty stationIds.
C21_LinesNameStations ==
    \A i \in DOMAIN lines :
        /\ lines[i].stationIds # <<>>
        /\ \A j \in DOMAIN lines[i].stationIds :
               hasStation(stations, lines[i].stationIds[j])

\* A station of a two-station line was deleted and the deletion undone: the
\* document shows the line with both stations, and the snapshot that redo
\* would restore shows it with one station and one station fewer.
C21_Witness ==
    /\ future # <<>>
    /\ Len(future[1].stations) = Len(stations) - 1
    /\ \E i \in DOMAIN lines :
           /\ Len(lines[i].stationIds) = 2
           /\ hasLine(future[1].lines, lines[i].id)
           /\ Len(findLine(future[1].lines, lines[i].id).stationIds) = 1

\* The document and its two stacks.
Document == [stations |-> stations, lines |-> lines,
             history |-> history, future |-> future]

\* undo as a function of the document and its stacks (history non-empty).
afterUndo(d) ==
    LET previous == d.history[Len(d.history)]
    IN  [stations |-> previous.stations,
         lines |-> previous.lines,
         history |-> SubSeq(d.history, 1, Len(d.history) - 1),
         future |-> <<Snapshot(d.stations, d.lines)>> \o d.future]

\* redo as a function of the document and its stacks (future non-empty).
afterRedo(d) ==
    [stations |-> d.future[1].stations,
     lines |-> d.future[1].lines,
     history |-> Append(d.history, Snapshot(d.stations, d.lines)),
     future |-> Tail(d.future)]

\* C22: undo followed at once by redo leaves stations, lines, history and
\* future as they were before the undo (history non-empty), and redo
\* followed at once by undo leaves them as they were before the redo
\* (future non-empty).  Every undo step and every redo step acts on the
\* four as afterUndo and afterRedo do, and the other operation applied to
\* the state it leaves gives the state it started from.
C22_UndoRedoInverse ==
    [][/\ undo => /\ Document' = afterUndo(Document)
                   /\ Document'.future # <<>>
                   /\ afterRedo(Document') = Document
       /\ redo => /\ Document' = afterRedo(Document)
                   /\ Document'.history # <<>>
                   /\ afterUndo(Document') = Document]_vars

\* Two undos in a row after edits: both stacks are non-empty and the three
\* documents around the present one differ from it.
C22_Witness ==
    /\ history # <<>>
    /\ Len(future) >= 2
    /\ history[Len(history)] # Snapshot(stations, lines)
    /\ future[1] # Snapshot(stations, lines)
    /\ future[2] # future[1]
    /\ lines # <<>>

\* C23: in every editor state reached by line starts and extensions, tool
\* changes, deletions, undo and redo, activeLineBuilderId is null or the id
\* of a line of the document.
C23_BuilderNamesLine ==
    activeLineBuilderId = NoLine \/ hasLine(lines, activeLineBuilderId)

\* C24: in every editor state with a non-empty history the stations and
\* lines that undo would restore, the top snapshot of history, differ from
\* the stations and lines of the document; pressing a station with the
\* Select tool without moving it leaves no undo step that changes nothing.
C24_UndoChangesDocument ==
    history # <<>> => history[Len(history)] # Snapshot(stations, lines)

\* The step is one of the handlers that call saveHistory.
SavesHistory ==
    \/ \E q \in EditorPoints : AddStation(q, MaxSession)
    \/ \E s \in DOMAIN stations :
           \/ PressStation(s, MaxSession)
           \/ StartLine(s, MaxSession)
           \/ ExtendLine(s, MaxSession)
           \/ DeleteStation(s, MaxSession)
    \/ \E l \in DOMAIN lines : DeleteLine(l, MaxSession)
    \/ handleExtendLine(MaxSession)
    \/ ToggleClosedLoop(MaxSession)
    \/ ToggleAlternateRoute(MaxSession)

\* The step is one of the handlers that call saveHistory and then change
\* neither stations nor lines.
OnlySavesHistory ==
    \/ \E s \in DOMAIN stations : PressStation(s, MaxSession)
    \/ handleExtendLine(MaxSession)

\* C25: saveHistory leaves history unchanged when its top snapshot has the
\* stations and lines of the document, and otherwise appends exactly one
\* snapshot of them; in both cases it empties future and leaves stations
\* and lines unchanged.
C25_SaveHistoryEffect ==
    [][/\ SavesHistory =>
              /\ (history # <<>>
                      /\ history[Len(history)].stations = stations
                      /\ history[Len(history)].lines = lines) =>
                     history' = history
              /\ ~(history # <<>>
                       /\ history[Len(history)].stations = stations
                       /\ history[Len(history)].lines = lines) =>
                     /\ Len(history') = Len(history) + 1
                     /\ SubSeq(history', 1, Len(history)) = history
                     /\ history'[Len(history')].stations = stations
                     /\ history'[Len(history')].lines = lines
              /\ future' = <<>>
       /\ OnlySavesHistory => stations' = stations /\ lines' = lines]_vars

\* A station is pressed with the Select tool in a document that has a line
\* and that an earlier press has already saved: the top snapshot is the
\* document, the one under it is not, and future is empty.
C25_Witness ==
    /\ dragState # NoDrag
    /\ lines # <<>>
    /\ future = <<>>
    /\ Len(history) >= 2
    /\ history[Len(history)] = Snapshot(stations, lines)
    /\ history[Len(history) - 1] # Snapshot(stations, lines)

\* C28: in every editor state reached by selections, additions, deletions
\* (the lines removed with their last station included), undo and redo,
\* selectedStationId is null or the id of a station of the document and
\* selectedLineId is null or the id of a line of the document.
C28_SelectionNamesItems ==
    /\ selectedStationId = "null" \/ hasStation(stations, selectedStationId)
    /\ selectedLineId = NoLine \/ hasLine(lines, selectedLineId)

\* C29: in every editor state a non-null activeLineBuilderId implies that
\* the active tool is AddLine: choosing another tool and stopLineBuilding
\* clear the builder, and handleExtendLine sets the builder and the AddLine
\* tool together.
C29_BuilderImpliesAddLine ==
    activeLineBuilderId # NoLine => activeTool = "ADD_LINE"

\* "Continue Line" was used on the selected line after a station press with
\* the Select tool: the line is being built again, the tool is AddLine, the
\* drag of the press is still open and the snapshot on top of history is the
\* document.
C29_Witness ==
    /\ activeLineBuilderId # NoLine
    /\ activeTool = "ADD_LINE"
    /\ selectedLineId = activeLineBuilderId
    /\ selectedStationId = "null"
    /\ dragState # NoDrag
    /\ history # <<>>
    /\ history[Len(history)] = Snapshot(stations, lines)

\* ------------------------------------------------------ service claims
\* C19: generateMapLayout resolves to null both when no API key is
\* configured and when the remote call fails or returns no text, and it
\* never rejects.
C19_LayoutNullOnFailure ==
    /\ promise.state # "rejected"
    /\ (phase = "settled" /\ (apiKey = "" \/ remote.kind \in {"throws", "noText"})) =>
           promise = ResolvedNull

====
